---- MODULE Spec2Model ----
(***************************************************************************)
(* Model of the ALTRIOS time-stepped simulators (LocomotiveSimulation,     *)
(* ConsistSimulation, SetSpeedTrainSim), of the staleness-tracked state    *)
(* they step, of Consist power distribution and of the trace containers.   *)
(*                                                                         *)
(* Powers are small integers (one unit stands for some number of watts);   *)
(* only the values the properties speak about are kept, every tracked      *)
(* field keeps its freshness flag.                                         *)
(***************************************************************************)
EXTENDS Integers, Sequences, FiniteSets, TLC

\* ------------------------------------------------------------------ bounds
MaxLen == 3
MaxLocos == 2
MaxVal == 2
MaxOffset == 4
MaxPoints == 2
MaxForce == 8
MaxSave == 1
MaxSpeed == 3

\* -------------------------------------------------------- input alphabets
PwrVals == {0 - 2, 0, 1, 3}
SpeedVals == {0 - 1, 0, 2}
PowertrainTypes == {"ConventionalLoco", "HybridLoco", "BatteryElectricLoco", "DummyLoco"}

\* stands for the 1e15 W "really big number" of DummyLoco
DummyPwr == 1000

\* ------------------------------------------------------------- utilities
Range(s) == {s[k] : k \in 1..Len(s)}
Max2(a, b) == IF a >= b THEN a ELSE b
Min2(a, b) == IF a <= b THEN a ELSE b
Abs(a) == IF a >= 0 THEN a ELSE 0 - a

RECURSIVE SumSeq(_)
SumSeq(s) == IF s = << >> THEN 0 ELSE Head(s) + SumSeq(Tail(s))

\* None of an Option over the naturals
None == 0 - 1

\* Sequences over S of length lo..hi
SeqsOf(S, lo, hi) == UNION {[1..n -> S] : n \in lo..hi}

\* Result of a fallible call: res is "Ok", "Err" or "Panic"; v is the state
\* the call leaves behind; site names where it failed.
Ok(v) == [res |-> "Ok", site |-> "", v |-> v]
Err(site, v) == [res |-> "Err", site |-> site, v |-> v]
Panic(site, v) == [res |-> "Panic", site |-> site, v |-> v]
\* the `?` operator: continue with F on Ok, return the failure otherwise
Then(r, F(_)) == IF r.res = "Ok" THEN F(r.v) ELSE r

\* utils::almost_eq_uom with the default tolerance: on integer powers the
\* tolerance is below one unit
almost_eq_uom(a, b) == a = b

\* ------------------------------------------------------------ TrackedState
\* A tracked field is a value plus a freshness flag; an owner record keeps
\* the set of its fresh fields in .fresh
is_fresh(x, f) == f \in x.fresh
\* an owner may keep in .writes, per field, the number of writes since the
\* field was last reset; an owner without .writes is left as it is
Counted(writes, fs, reset) ==
    [f \in DOMAIN writes |-> IF f \notin fs THEN writes[f]
                             ELSE IF reset THEN 0 ELSE writes[f] + 1]
\* update / increment / mark_fresh: the write marks the field fresh
mark_fresh(x, fs) ==
    [x EXCEPT !.fresh = @ \cup fs, !.writes = Counted(@, fs, FALSE)]
\* a write that sets the value and leaves the flag as it was
update_unmarked(x, f, v) == [x EXCEPT ![f] = v]

\* update: the write sets the value and marks the field fresh
update(x, f, v) == mark_fresh([x EXCEPT ![f] = v], {f})
\* increment: the stored value plus d, written back
increment(x, f, d) == update(x, f, x[f] + d)

\* a read that never looks at the flag
get_fresh_unchecked(x, f) == Ok(x)

\* get_fresh: the value, or a stale-read error
get_fresh(x, f) == IF is_fresh(x, f) THEN Ok(x) ELSE Err("stale_read", x)
\* get_stale: the stored value whatever the flag, flag untouched
get_stale(x, f) == Ok(x)

\* index (1-based) of the first stale field of order, 0 when all are fresh
FirstStale(fresh, order) ==
    IF \A k \in 1..Len(order) : order[k] \in fresh THEN 0
    ELSE CHOOSE k \in 1..Len(order) :
            /\ order[k] \notin fresh
            /\ \A j \in 1..(k - 1) : order[j] \in fresh

\* check_and_reset of the fields of one owner, visited in order: each field
\* is checked fresh and then marked stale; the first stale field fails the
\* call, the fields visited before it have already been reset
check_and_reset_fields(x, order) ==
    LET k == FirstStale(x.fresh, order) IN
    IF k = 0 THEN Ok([x EXCEPT !.fresh = @ \ Range(order),
                               !.writes = Counted(@, Range(order), TRUE)])
    ELSE Err("check_and_reset",
             [x EXCEPT !.fresh = @ \ {order[j] : j \in 1..(k - 1)},
                       !.writes = Counted(@, {order[j] : j \in 1..(k - 1)}, TRUE)])

\* -------------------------------------------------------------- Locomotive
\* LocomotiveState: its tracked fields in declaration order
LocomotiveState == <<"i", "pwr_out_max", "pwr_rate_out_max", "pwr_regen_max",
                     "pwr_out", "pwr_aux", "energy_out", "energy_aux">>

\* Tracked state nested under loco_type: the step index, the capability, the
\* solved power and the cumulative energies of the powertrain components.
\* DummyLoco has none.
PowertrainState(loco_type) ==
    IF loco_type = "DummyLoco" THEN << >>
    ELSE <<"pt.i", "pt.pwr_max", "pt.pwr_out", "pt.energy">>

\* rated output of the electric drivetrain (edrv.pwr_out_max)
edrv_pwr_out_max(loco_type) ==
    CASE loco_type = "ConventionalLoco" -> 2
      [] loco_type = "HybridLoco" -> 2
      [] loco_type = "BatteryElectricLoco" -> 1
      [] OTHER -> DummyPwr

\* regeneration capability of the electric drivetrain
edrv_pwr_mech_regen_max(loco_type) ==
    CASE loco_type = "ConventionalLoco" -> 0
      [] loco_type = "DummyLoco" -> DummyPwr
      [] OTHER -> 1

reversible_energy_storage(loco_type) ==
    loco_type \in {"HybridLoco", "BatteryElectricLoco"}

\* a Locomotive as constructed: every state value zero, every flag fresh
NewLocomotive(loco_type) ==
    [loco_type |-> loco_type, i |-> 0, pwr_out_max |-> 0, pwr_regen_max |-> 0,
     pwr_out |-> 0,
     fresh |-> Range(LocomotiveState) \cup Range(PowertrainState(loco_type))]

\* a Locomotive whose writes are counted
CountedLocomotive(loco_type) ==
    LET L == NewLocomotive(loco_type) IN
    [f \in DOMAIN L \cup {"writes"} |->
        IF f = "writes" THEN [g \in L.fresh |-> 0] ELSE L[f]]

\* Locomotive::step: the index of the locomotive and of its powertrain advance
Locomotive_step(L) ==
    Ok(mark_fresh([L EXCEPT !.i = @ + 1],
                  {"i"} \cup (IF L.loco_type = "DummyLoco" THEN {} ELSE {"pt.i"})))

\* Locomotive::check_and_reset: state first, then the powertrain
Locomotive_check_and_reset(L) ==
    Then(check_and_reset_fields(L, LocomotiveState),
         LAMBDA L1 : check_and_reset_fields(L1, PowertrainState(L1.loco_type)))

\* a set_pwr_aux that writes pwr_aux a second time
set_pwr_aux_twice(L) ==
    Then(get_stale(L, "pwr_out"),
         LAMBDA L1 : Ok(mark_fresh(mark_fresh(L1, {"pwr_aux"}), {"pwr_aux"})))

Locomotive_set_pwr_aux(L) ==
    Then(get_stale(L, "pwr_out"), LAMBDA L1 : Ok(mark_fresh(L1, {"pwr_aux"})))

\* set_pwr_lims: copies the drivetrain limits into the LocomotiveState
set_pwr_lims(L) ==
    IF ~is_fresh(L, "pt.pwr_max") THEN Err("stale_read", L)
    ELSE Ok(mark_fresh([L EXCEPT !.pwr_out_max = edrv_pwr_out_max(L.loco_type),
                                 !.pwr_regen_max = edrv_pwr_mech_regen_max(L.loco_type)],
                       {"pwr_out_max", "pwr_rate_out_max", "pwr_regen_max"}))

\* PowertrainType::set_curr_pwr_max_out; ptOk is whether the component
\* models succeed
PowertrainType_set_curr_pwr_max_out(L, has_mass, has_speed, ptOk) ==
    CASE L.loco_type = "DummyLoco" -> Ok(L)
      [] L.loco_type = "BatteryElectricLoco" /\ ~has_mass -> Err("train_mass", L)
      [] L.loco_type = "BatteryElectricLoco" /\ ~has_speed -> Err("train_speed", L)
      [] OTHER -> IF ptOk THEN Ok(mark_fresh(L, {"pt.pwr_max"}))
                  ELSE Err("powertrain", L)

Locomotive_set_curr_pwr_max_out(L, has_mass, has_speed, ptOk) ==
    Then(get_fresh(L, "pwr_aux"), LAMBDA L1 :
    Then(PowertrainType_set_curr_pwr_max_out(L1, has_mass, has_speed, ptOk),
         LAMBDA L2 :
            IF L2.loco_type = "DummyLoco"
            THEN Ok(mark_fresh([L2 EXCEPT !.pwr_out_max = DummyPwr,
                                          !.pwr_regen_max = DummyPwr],
                               {"pwr_out_max", "pwr_rate_out_max", "pwr_regen_max"}))
            ELSE set_pwr_lims(L2)))

Locomotive_solve_energy_consumption(L, pwr_out_req, has_mass, has_speed, ptOk) ==
    LET L1 == mark_fresh([L EXCEPT !.pwr_out = pwr_out_req], {"pwr_out"})
        pt_solved == IF ptOk THEN Ok(mark_fresh(L1, {"pt.pwr_out"}))
                  ELSE Err("powertrain", L1)
    IN  CASE L.loco_type = "DummyLoco" -> Ok(L1)
          [] L.loco_type = "HybridLoco" /\ ~has_mass -> Err("train_mass", L1)
          [] L.loco_type = "HybridLoco" /\ ~has_speed -> Err("train_speed", L1)
          [] OTHER -> Then(get_fresh(L1, "pwr_aux"), LAMBDA L2 : pt_solved)

\* Locomotive::set_cumulative: integrates pwr_out and pwr_aux, then the
\* powertrain's own energies
Locomotive_set_cumulative(L) ==
    Then(get_fresh(L, "pwr_out"), LAMBDA L1 :
    Then(get_fresh(L1, "pwr_aux"), LAMBDA L2 :
         LET L3 == mark_fresh(L2, {"energy_out", "energy_aux"}) IN
         IF L3.loco_type = "DummyLoco" THEN Ok(L3)
         ELSE Then(get_fresh(L3, "pt.pwr_out"),
                   LAMBDA L4 : Ok(mark_fresh(L4, {"pt.energy"})))))

\* ----------------------------------------------------------------- Consist
\* ConsistState: its fields in declaration order
ConsistState == <<"i", "pwr_out_max", "pwr_rate_out_max", "pwr_regen_max",
                  "pwr_out_max_reves", "pwr_out_deficit", "pwr_out_max_non_reves",
                  "pwr_regen_deficit", "pwr_dyn_brake_max", "pwr_out_req",
                  "pwr_cat_lim", "pwr_out", "pwr_reves", "pwr_fuel",
                  "energy_out", "energy_out_pos", "energy_out_neg",
                  "energy_res", "energy_fuel">>

\* Fields of ConsistState left fresh by the capability query.  The train
\* simulator reads pwr_dyn_brake_max fresh between the capability query and
\* the energy solve, so the capability query leaves it fresh as well.
ConsistLimitFields == {"pwr_out_max", "pwr_rate_out_max", "pwr_regen_max",
                       "pwr_out_max_reves", "pwr_out_max_non_reves",
                       "pwr_dyn_brake_max"}

\* outcome of applying a per-locomotive call to each locomotive in order:
\* R[k] is the result for locomotive k; the first failure stops the loop
FirstFailure(R) ==
    IF \A k \in DOMAIN R : R[k].res = "Ok" THEN 0
    ELSE CHOOSE k \in DOMAIN R :
            /\ R[k].res # "Ok"
            /\ \A j \in 1..(k - 1) : R[j].res = "Ok"

ForEachLoco(Cn, R) ==
    LET f == FirstFailure(R)
        lv == [k \in DOMAIN Cn.loco_vec |->
                  IF f = 0 \/ k <= f THEN R[k].v ELSE Cn.loco_vec[k]]
        Cn1 == [Cn EXCEPT !.loco_vec = lv]
    IN  IF f = 0 THEN Ok(Cn1)
        ELSE [res |-> R[f].res, site |-> R[f].site, v |-> Cn1]

\* sum of dynamic braking capability
set_pwr_dyn_brake_max(loco_vec) ==
    SumSeq([k \in DOMAIN loco_vec |-> edrv_pwr_out_max(loco_vec[k].loco_type)])

\* ConsistState::default
DefaultConsistState ==
    [i |-> 1, pwr_out_max |-> 0, pwr_regen_max |-> 0, pwr_out_max_reves |-> 0,
     pwr_out_deficit |-> 0, pwr_out_max_non_reves |-> 0, pwr_regen_deficit |-> 0,
     pwr_dyn_brake_max |-> 0, pwr_out_req |-> 0, pwr_out |-> 0,
     fresh |-> Range(ConsistState)]

\* the locomotives of loco_vec that carry a reversible energy store, counted
CountRes(lv) ==
    Cardinality({k \in DOMAIN lv : reversible_energy_storage(lv[k].loco_type)})

\* Consist::n_res_equipped: the stored count when there is one, else the
\* count of loco_vec, which is stored; v is the consist, n the value returned
Consist_n_res_equipped(Cn) ==
    IF Cn.n_res_equipped # None
    THEN [v |-> Cn, n |-> Cn.n_res_equipped]
    ELSE [v |-> [Cn EXCEPT !.n_res_equipped = CountRes(Cn.loco_vec)],
          n |-> CountRes(Cn.loco_vec)]

\* Consist::new followed by init(); new calls n_res_equipped()
NewConsist(types) ==
    LET lv == [k \in DOMAIN types |-> NewLocomotive(types[k])] IN
    Consist_n_res_equipped(
        [loco_vec |-> lv, assert_limits |-> TRUE,
         state |-> [DefaultConsistState EXCEPT
                       !.pwr_dyn_brake_max = set_pwr_dyn_brake_max(lv)],
         n_res_equipped |-> None]).v

\* Consist::set_loco_vec
Consist_set_loco_vec(Cn, loco_vec) == [Cn EXCEPT !.loco_vec = loco_vec]

\* Consist::drain_loco_vec: Vec::drain(start..end) panics when start > end or
\* end > len, and removes the locomotives at the indices start .. end - 1
Consist_drain_loco_vec(Cn, start, end) ==
    IF start > end \/ end > Len(Cn.loco_vec) THEN Panic("drain", Cn)
    ELSE Ok([Cn EXCEPT !.loco_vec =
                SubSeq(@, 1, start) \o SubSeq(@, end + 1, Len(@))])

\* a set_assert_limits that also puts the policy back to RESGreedy
set_assert_limits_resetting_pdct(Cn, val) ==
    [Cn EXCEPT !.assert_limits = val, !.pdct = "RESGreedy"]

Consist_set_assert_limits(Cn, val) == [Cn EXCEPT !.assert_limits = val]

Consist_set_pwr_aux(Cn) ==
    ForEachLoco(Cn, [k \in DOMAIN Cn.loco_vec |->
                        Locomotive_set_pwr_aux(Cn.loco_vec[k])])

\* a consist whose index advances by two
Consist_step_skip(Cn) == Ok([Cn EXCEPT !.state.i = @ + 2, !.state.fresh = @ \cup {"i"}])

\* Consist::step: every locomotive steps, then the consist index advances
Consist_step(Cn) ==
    Then(ForEachLoco(Cn, [k \in DOMAIN Cn.loco_vec |->
                             Locomotive_step(Cn.loco_vec[k])]),
         LAMBDA C1 : Ok([C1 EXCEPT !.state.i = @ + 1,
                                   !.state.fresh = @ \cup {"i"}]))

\* Consist::check_and_reset: the ConsistState, then each locomotive
Consist_check_and_reset(Cn) ==
    LET r == check_and_reset_fields(Cn.state, ConsistState)
        Cn1 == [Cn EXCEPT !.state = r.v]
    IN  IF r.res # "Ok" THEN Err(r.site, Cn1)
        ELSE ForEachLoco(Cn1, [k \in DOMAIN Cn1.loco_vec |->
                                  Locomotive_check_and_reset(Cn1.loco_vec[k])])

\* fail = [at, in]: the powertrain component models of locomotive `at` fail
\* in call `in` ("pwr_max" or "solve"); at = 0 means none fails.  The
\* locomotive that may fail is the last one, so that the locomotives before
\* it have been processed when the failure stops the loop.
Fails(n) == {[at |-> 0, in |-> "none"]} \cup
            {[at |-> n, in |-> w] : w \in {"pwr_max", "solve"}}

Consist_set_curr_pwr_max_out(Cn, has_mass, has_speed, fail) ==
    LET lv == Cn.loco_vec
        res_total_usable_energy ==
            Cardinality({k \in DOMAIN lv : reversible_energy_storage(lv[k].loco_type)})
        mass == res_total_usable_energy > 0 /\ has_mass
        r == ForEachLoco(Cn, [k \in DOMAIN lv |->
                Locomotive_set_curr_pwr_max_out(lv[k], mass, has_speed,
                    ~(fail.at = k /\ fail.in = "pwr_max"))])
        lv1 == r.v.loco_vec
        pwr_out_max == SumSeq([k \in DOMAIN lv1 |-> lv1[k].pwr_out_max])
        pwr_out_max_reves ==
            SumSeq([k \in DOMAIN lv1 |->
                CASE lv1[k].loco_type = "ConventionalLoco" -> 0
                  [] lv1[k].loco_type = "DummyLoco" -> DummyPwr
                  [] OTHER -> lv1[k].pwr_out_max])
    IN  IF r.res # "Ok" THEN r
        ELSE Ok([r.v EXCEPT
                 !.state.pwr_out_max = pwr_out_max,
                 !.state.pwr_regen_max =
                     SumSeq([k \in DOMAIN lv1 |-> lv1[k].pwr_regen_max]),
                 !.state.pwr_out_max_reves = pwr_out_max_reves,
                 !.state.pwr_out_max_non_reves = pwr_out_max - pwr_out_max_reves,
                 !.state.fresh = @ \cup ConsistLimitFields])

\* Power distribution control (pdct.solve_positive_traction and
\* pdct.solve_negative_traction): the policy yields one power per locomotive
\* or an error.  The outcomes kept are: the whole request on the first
\* locomotive ("first"), the whole request on the last one ("last"), an
\* allocation that delivers nothing ("none"), a failure of the policy ("err").
PdctOutcomes == {"first", "last", "none", "err"}

pdct_solve(alloc, n, pwr_out_req) ==
    [k \in 1..n |->
        IF (alloc = "first" /\ k = 1) \/ (alloc = "last" /\ k = n)
        THEN pwr_out_req ELSE 0]

\* the request less what the locomotives with energy storage can deliver
pwr_out_deficit_unclamped(pwr_out_req, pwr_out_max_reves) ==
    pwr_out_req - pwr_out_max_reves

\* state.pwr_out_deficit: the part of the request that the locomotives with
\* reversible energy storage cannot deliver, never negative
pwr_out_deficit(pwr_out_req, pwr_out_max_reves) ==
    Max2(pwr_out_req - pwr_out_max_reves, 0)

\* a consist that accepts whatever the policy distributed
PwrOutMatches_unchecked(Cn, pwr_out) == TRUE

\* the final check of the distribution against the request
PwrOutMatches(Cn, pwr_out) ==
    ~Cn.assert_limits \/ almost_eq_uom(Cn.state.pwr_out_req, pwr_out)

Consist_solve_energy_consumption(Cn, pwr_out_req, has_mass, has_speed, alloc, fail) ==
    LET lv == Cn.loco_vec
        n == Len(lv)
        st1 == [Cn.state EXCEPT
                  !.pwr_out_req = pwr_out_req,
                  !.pwr_out_deficit =
                      pwr_out_deficit(pwr_out_req, Cn.state.pwr_out_max_reves),
                  !.pwr_regen_deficit =
                      Max2((0 - pwr_out_req) - Cn.state.pwr_regen_max, 0),
                  !.pwr_dyn_brake_max = set_pwr_dyn_brake_max(lv),
                  !.fresh = @ \cup {"pwr_out_req", "pwr_out_deficit",
                                    "pwr_regen_deficit", "pwr_dyn_brake_max"}]
        Cn1 == [Cn EXCEPT !.state = st1]
        pwr_out_vec == IF pwr_out_req = 0 THEN [k \in 1..n |-> 0]
                       ELSE pdct_solve(alloc, n, pwr_out_req)
        pwr_out == SumSeq(pwr_out_vec)
        Cn2 == [Cn1 EXCEPT !.state.pwr_out = pwr_out,
                           !.state.fresh = @ \cup {"pwr_out"}]
        r == ForEachLoco(Cn2, [k \in DOMAIN lv |->
                Locomotive_solve_energy_consumption(lv[k], pwr_out_vec[k],
                    has_mass, has_speed, ~(fail.at = k /\ fail.in = "solve"))])
    IN  CASE Cn.assert_limits /\ ~((0 - pwr_out_req) <= Cn.state.pwr_dyn_brake_max)
                -> Err("exceeds_max_db_power", Cn)
          [] Cn.assert_limits /\ ~(pwr_out_req <= Cn.state.pwr_out_max)
                -> Err("exceeds_max_power", Cn)
          [] OTHER ->
             IF pwr_out_req # 0 /\ alloc = "err" THEN Err("pdct", Cn1)
             ELSE IF ~PwrOutMatches(Cn2, pwr_out) THEN Err("pwr_out_mismatch", Cn2)
             ELSE IF r.res # "Ok" THEN r
             ELSE Ok([r.v EXCEPT !.state.fresh = @ \cup
                        {"pwr_fuel", "pwr_reves", "energy_out", "energy_fuel",
                         "energy_res",
                         IF pwr_out >= 0 THEN "energy_out_pos"
                                         ELSE "energy_out_neg"}])

\* Consist::set_cumulative: the cumulative energies of the ConsistState are
\* integrated from its fresh powers, then each locomotive integrates its own
Consist_set_cumulative(Cn) ==
    IF ~({"pwr_out", "pwr_fuel", "pwr_reves"} \subseteq Cn.state.fresh)
    THEN Err("stale_read", Cn)
    ELSE LET Cn1 == [Cn EXCEPT !.state.fresh = @ \cup
                        {"energy_out", "energy_out_pos", "energy_out_neg",
                         "energy_res", "energy_fuel"}]
         IN  ForEachLoco(Cn1, [k \in DOMAIN Cn1.loco_vec |->
                                  Locomotive_set_cumulative(Cn1.loco_vec[k])])

\* ------------------------------------------------------------ PowerTrace
\* element i (0-based, as in the code) of a column
InRange(col, i) == i >= 0 /\ i < Len(col)
At(col, i) == col[i + 1]

PowerTrace_len(pt) == Len(pt.time)

\* col[s..e]: the elements at the 0-based indices s .. e - 1
Slice(col, s, e) == SubSeq(col, s + 1, e)

\* PowerTrace::trim: time, pwr and engine_on are replaced by their slices;
\* slicing panics when start_idx > end_idx
PowerTrace_trim(pt, start_idx, end_idx) ==
    LET s == IF start_idx = None THEN 0 ELSE start_idx
        e == IF end_idx = None THEN PowerTrace_len(pt) ELSE end_idx
    IN  IF ~(e <= PowerTrace_len(pt)) THEN Err("end_idx", pt)
        ELSE IF s > e THEN Panic("slice", pt)
        ELSE Ok([pt EXCEPT !.time = Slice(@, s, e),
                           !.pwr = Slice(@, s, e),
                           !.engine_on = Slice(@, s, e)])

\* PowerTrace::dt_at_i: Ok carries no value here, dt is positive by
\* construction of the traces
dt_at_i(pt, i) ==
    IF ~(i > 0) THEN "Err"
    ELSE IF ~InRange(pt.time, i) \/ ~InRange(pt.time, i - 1) THEN "Err"
    ELSE "Ok"

\* --------------------------------------------------- LocomotiveSimulation
LocomotiveSimulation_solve_step(L, pt, fail) ==
    LET i == L.i
        has_speed == pt.train_speed # << >>
        L1 == Locomotive_set_pwr_aux(L).v
    IN  IF ~is_fresh(L, "i") THEN Err("stale_read", L)
        ELSE IF ~InRange(pt.engine_on, i) THEN Err("engine_on_index", L)
        ELSE IF has_speed /\ ~InRange(pt.train_speed, i)
             THEN Panic("train_speed_index", L1)
        ELSE IF dt_at_i(pt, i) # "Ok" THEN Err("dt_at_i", L1)
        ELSE
        Then(Locomotive_set_curr_pwr_max_out(L1, pt.train_mass, has_speed,
                 ~(fail.at = 1 /\ fail.in = "pwr_max")), LAMBDA L2 :
        IF ~InRange(pt.pwr, i) THEN Err("pwr_index", L2)
        ELSE
        Then(Locomotive_solve_energy_consumption(L2, At(pt.pwr, i), pt.train_mass,
                 has_speed, ~(fail.at = 1 /\ fail.in = "solve")), LAMBDA L3 :
        Then(get_fresh(L3, "pwr_out"), LAMBDA L4 :
        IF ~almost_eq_uom(At(pt.pwr, i), L4.pwr_out) THEN Err("pwr_out_mismatch", L4)
        ELSE Locomotive_set_cumulative(L4))))

LocomotiveSimulation_check_and_reset(L) == Locomotive_check_and_reset(L)

LocomotiveSimulation_step(L, pt, fail) ==
    Then(LocomotiveSimulation_check_and_reset(L), LAMBDA L1 :
    Then(Locomotive_step(L1), LAMBDA L2 :
    Then(get_fresh(L2, "i"), LAMBDA L3 :
         LocomotiveSimulation_solve_step(L3, pt, fail))))

\* ------------------------------------------------------ ConsistSimulation
ConsistSimulation_solve_step(Cn, pt, alloc, fail) ==
    LET C1 == Consist_set_pwr_aux(
                 [Cn EXCEPT !.state.fresh = @ \cup {"pwr_cat_lim"}]).v
        i == Cn.state.i
        has_speed == pt.train_speed # << >>
    IN  IF ~is_fresh(Cn.state, "i") THEN Err("stale_read", C1)
        ELSE IF has_speed /\ ~InRange(pt.train_speed, i)
             THEN Panic("train_speed_index", C1)
        ELSE IF dt_at_i(pt, i) # "Ok" THEN Err("dt_at_i", C1)
        ELSE
        Then(Consist_set_curr_pwr_max_out(C1, pt.train_mass, has_speed, fail),
             LAMBDA C2 :
        IF ~InRange(pt.pwr, i) THEN Panic("pwr_index", C2)
        ELSE
        Then(Consist_solve_energy_consumption(C2, At(pt.pwr, i), pt.train_mass,
                 has_speed, alloc, fail), LAMBDA C3 :
             Consist_set_cumulative(C3)))

ConsistSimulation_check_and_reset(Cn) == Consist_check_and_reset(Cn)

\* a step() that does not begin with check_and_reset
ConsistSimulation_step_unchecked(Cn, pt, alloc, fail) ==
    Then(Consist_step(Cn), LAMBDA C2 :
         ConsistSimulation_solve_step(C2, pt, alloc, fail))

ConsistSimulation_step(Cn, pt, alloc, fail) ==
    Then(ConsistSimulation_check_and_reset(Cn), LAMBDA C1 :
    Then(Consist_step(C1), LAMBDA C2 :
         IF ~is_fresh(C2.state, "i") THEN Err("stale_read", C2)
         ELSE ConsistSimulation_solve_step(C2, pt, alloc, fail)))

\* ------------------------------------------------------- SetSpeedTrainSim
\* TrainState: its tracked fields in declaration order; "link" stands for
\* the fields set_link_and_offset writes, "res" for the resistances
\* update_res writes; update_res writes elev_front as well
TrainState == <<"time", "i", "offset", "total_dist", "link", "elev_front", "speed",
                "speed_limit", "speed_target", "dt", "length", "mass_static",
                "mass_rot", "mass_freight", "res", "pwr_res", "pwr_accel",
                "pwr_whl_out", "energy_whl_out", "energy_whl_out_pos",
                "energy_whl_out_neg">>

\* TrainState::valid
NewTrainState == [i |-> 0, pwr_whl_out |-> 0, fresh |-> Range(TrainState)]

\* a simulator value: the train state, the consist it owns and the optional
\* temperature trace
TrainSim(st, Cn, tt) == [state |-> st, loco_con |-> Cn, temp_trace |-> tt]

SpeedTrace_len(strace) == Len(strace.time)

\* Option<Vec<bool>>: None, or Some(vec)
NoVec == [some |-> FALSE, vec |-> << >>]
SomeVec(vec) == [some |-> TRUE, vec |-> vec]

\* SpeedTrace::trim: time and speed are replaced by their slices, and so is
\* engine_on when it is Some; slicing panics when start_idx > end_idx, and
\* when engine_on is shorter than end_idx, after time and speed were replaced
SpeedTrace_trim(strace, start_idx, end_idx) ==
    LET s == IF start_idx = None THEN 0 ELSE start_idx
        e == IF end_idx = None THEN SpeedTrace_len(strace) ELSE end_idx
    IN  IF ~(e <= SpeedTrace_len(strace)) THEN Err("end_idx", strace)
        ELSE IF s > e THEN Panic("slice", strace)
        ELSE IF strace.engine_on.some /\ e > Len(strace.engine_on.vec)
        THEN Panic("slice", [strace EXCEPT !.time = Slice(@, s, e),
                                           !.speed = Slice(@, s, e)])
        ELSE Ok([strace EXCEPT
                   !.time = Slice(@, s, e),
                   !.speed = Slice(@, s, e),
                   !.engine_on = IF @.some THEN SomeVec(Slice(@.vec, s, e)) ELSE @])

\* a request handed on as computed
pwr_whl_out_as_computed(pwr_whl_out_unclipped, pwr_neg_max, pwr_pos_max) ==
    pwr_whl_out_unclipped

\* pwr_whl_out_unclipped.max(-pwr_neg_max).min(pwr_pos_max)
clip_pwr_whl_out(pwr_whl_out_unclipped, pwr_neg_max, pwr_pos_max) ==
    Min2(Max2(pwr_whl_out_unclipped, 0 - pwr_neg_max), pwr_pos_max)

\* SetSpeedTrainSim::solve_required_pwr at step i >= 1: dt is one time
\* unit, mass / 2 is one unit, the net resistance is one unit of force
\* while the train moves
solve_required_pwr(T, strace) ==
    LET st == T.state
        cst == T.loco_con.state
        i == st.i
        pwr_rate_out_max == cst.pwr_out_max
        pwr_pos_max == Min2(cst.pwr_out_max,
                            Max2(0, st.pwr_whl_out + pwr_rate_out_max))
        pwr_neg_max == Max2(cst.pwr_dyn_brake_max, 0)
        speed == At(strace.speed, i)
        speed_prev == At(strace.speed, i - 1)
        pwr_res == IF speed + speed_prev > 0 THEN 1 ELSE 0
        pwr_accel == speed * speed - speed_prev * speed_prev
        pwr_whl_out_unclipped == pwr_accel + pwr_res
        pwr_whl_out == clip_pwr_whl_out(pwr_whl_out_unclipped, pwr_neg_max,
                                        pwr_pos_max)
    IN  IF ~({"pwr_out_max", "pwr_rate_out_max", "pwr_dyn_brake_max"}
                \subseteq cst.fresh) \/ ~is_fresh(st, "dt")
        THEN Err("stale_read", T)
        ELSE IF ~is_fresh(st, "res") THEN Err("stale_read", T)
        ELSE Ok([T EXCEPT !.state.pwr_whl_out = pwr_whl_out,
                          !.state.fresh = @ \cup
                              {"pwr_res", "pwr_accel", "pwr_whl_out",
                               "energy_whl_out_pos", "energy_whl_out_neg"}])

SetSpeedTrainSim_set_cumulative(T) ==
    IF ~is_fresh(T.state, "pwr_whl_out") THEN Err("stale_read", T)
    ELSE LET r == Consist_set_cumulative(T.loco_con) IN
         [res |-> r.res, site |-> r.site,
          v |-> [T EXCEPT !.state.fresh = @ \cup {"energy_whl_out"},
                          !.loco_con = r.v]]

\* lift a Consist call into the simulator that owns the consist
OnLocoCon(T, r) == [res |-> r.res, site |-> r.site, v |-> [T EXCEPT !.loco_con = r.v]]

SetSpeedTrainSim_solve_step(T, strace, alloc, fail) ==
    LET i == T.state.i
        T1 == [T EXCEPT !.state.fresh = @ \cup {"dt"}]
        T2 == [T1 EXCEPT
                 !.loco_con.state.fresh = @ \cup {"pwr_cat_lim"},
                 !.state.fresh = @ \cup {"speed_limit", "speed_target",
                     "mass_static", "mass_rot", "mass_freight", "length"}]
        T3 == OnLocoCon(T2, Consist_set_pwr_aux(T2.loco_con)).v
    IN  IF ~is_fresh(T.state, "i") THEN Err("stale_read", T)
        ELSE IF ~InRange(strace.time, i) THEN Panic("time_index", T)
        ELSE IF ~InRange(strace.speed, i) THEN Panic("speed_index", T1)
        ELSE IF ~(At(strace.speed, i) >= 0) THEN Err("negative_speed", T1)
        ELSE IF T.temp_trace # << >> /\ ~is_fresh(T3.state, "elev_front")
             THEN Err("stale_read", T3)
        ELSE IF T.temp_trace # << >> /\ ~is_fresh(T3.state, "time")
             THEN Err("stale_read", T3)
        ELSE
        Then(OnLocoCon(T3, Consist_set_curr_pwr_max_out(T3.loco_con, TRUE, TRUE,
                 fail)), LAMBDA T4 :
        Then(solve_required_pwr([T4 EXCEPT !.state.fresh = @ \cup {"res", "elev_front"}],
                                strace), LAMBDA T5 :
        Then(OnLocoCon(T5, Consist_solve_energy_consumption(T5.loco_con,
                 T5.state.pwr_whl_out, TRUE, TRUE, alloc, fail)), LAMBDA T6 :
             SetSpeedTrainSim_set_cumulative(
                 [T6 EXCEPT !.state.fresh = @ \cup
                     {"time", "speed", "link", "offset", "total_dist"}]))))

\* a check_and_reset that leaves the consist out
SetSpeedTrainSim_check_and_reset_state(T) ==
    LET r == check_and_reset_fields(T.state, TrainState)
    IN  [res |-> r.res, site |-> r.site, v |-> [T EXCEPT !.state = r.v]]

\* SetSpeedTrainSim::check_and_reset: the train state, then the consist
SetSpeedTrainSim_check_and_reset(T) ==
    LET r == check_and_reset_fields(T.state, TrainState)
        T1 == [T EXCEPT !.state = r.v]
    IN  IF r.res # "Ok" THEN Err(r.site, T1)
        ELSE OnLocoCon(T1, Consist_check_and_reset(T1.loco_con))

SetSpeedTrainSim_step(T, strace, alloc, fail) ==
    IF ~is_fresh(T.state, "i") THEN Err("stale_read", T)
    ELSE
    Then(SetSpeedTrainSim_check_and_reset(T), LAMBDA T1 :
    Then(OnLocoCon([T1 EXCEPT !.state.i = @ + 1, !.state.fresh = @ \cup {"i"}],
                   Consist_step(T1.loco_con)), LAMBDA T2 :
         SetSpeedTrainSim_solve_step(T2, strace, alloc, fail)))

\* ------------------------------------------------------ trim_failed_steps
\* the guard shared by the three simulators, then trim(None, Some(i)); v is
\* the trace the call leaves behind
trim_to_index(tr, i, trimmed) ==
    IF i <= 1 THEN Err("not_past_first_step", tr) ELSE trimmed

\* LocomotiveSimulation::trim_failed_steps reads the index with get_stale
LocomotiveSimulation_trim_failed_steps(L, pt) ==
    trim_to_index(pt, L.i, PowerTrace_trim(pt, None, L.i))

\* ConsistSimulation::trim_failed_steps reads the index with get_fresh
ConsistSimulation_trim_failed_steps(Cn, pt) ==
    IF ~is_fresh(Cn.state, "i") THEN Err("stale_read", pt)
    ELSE trim_to_index(pt, Cn.state.i, PowerTrace_trim(pt, None, Cn.state.i))

\* SetSpeedTrainSim::trim_failed_steps reads the index with get_fresh
SetSpeedTrainSim_trim_failed_steps(T, strace) ==
    IF ~is_fresh(T.state, "i") THEN Err("stale_read", strace)
    ELSE trim_to_index(strace, T.state.i, SpeedTrace_trim(strace, None, T.state.i))

\* ---------------------------------------------------------- BrakingPoints
BrakingPoint(offset, speed_limit, speed_target) ==
    [offset |-> offset, speed_limit |-> speed_limit, speed_target |-> speed_target]

\* BrakingPoints::default: no points, the cursor at 0
BrakingPoints_default == [points |-> << >>, idx_curr |-> 0]

Last(s) == s[Len(s)]

\* train_state.dt, one time unit
BrakeDt == 1

\* the speed gained over one time step of braking, walking backwards:
\* dt * (fric_brake.force_max + res_net) / mass_compound
vel_change(decel) == BrakeDt * decel

\* the statement `while idx_curr > 0 && ...` written without the bound, as
\* in calc_speeds: the cursor is moved back while the point before it has
\* been reached; points[idx_curr - 1] with idx_curr = 0 panics (None)
RECURSIVE AdvanceCursor(_, _, _)
AdvanceCursor(points, idx_curr, offset) ==
    IF idx_curr = 0 \/ ~InRange(points, idx_curr - 1) THEN None
    ELSE IF At(points, idx_curr - 1).offset <= offset
         THEN AdvanceCursor(points, idx_curr - 1, offset)
    ELSE idx_curr

\* the smallest speed_target among the points from idx down to the last one
\* that lies within offset_far
RECURSIVE TargetWithin(_, _, _, _)
TargetWithin(points, idx, offset_far, speed_target) ==
    IF idx >= 1 /\ At(points, idx - 1).offset <= offset_far
    THEN TargetWithin(points, idx - 1, offset_far,
                      Min2(speed_target, At(points, idx - 1).speed_target))
    ELSE speed_target

\* a lookup that finds the cursor by scanning from the start of the path
calc_speeds_cursor_rescan(points, idx_curr, offset) ==
    AdvanceCursor(points, Len(points) - 1, offset)

\* the cursor after a lookup at offset: 0 once the end of the path has been
\* reached, moved back from where it was otherwise
calc_speeds_cursor(points, idx_curr, offset) ==
    IF At(points, 0).offset <= offset THEN 0
    ELSE AdvanceCursor(points, idx_curr, offset)

\* BrakingPoints::calc_speeds: v is the BrakingPoints left behind, val the
\* pair (speed_limit, speed_target) returned
BrakingPoints_calc_speeds(bp, offset, speed, adj_ramp_up_time) ==
    LET points == bp.points
        idx == calc_speeds_cursor(points, bp.idx_curr, offset)
        bp1 == [bp EXCEPT !.idx_curr = idx]
    IN  IF points = << >> THEN Panic("unwrap", bp)
        ELSE IF idx = None THEN Panic("points_index", bp)
        ELSE IF ~InRange(points, idx) THEN Panic("points_index", bp1)
        ELSE IF ~(speed <= At(points, idx).speed_limit)
             THEN Panic("speed_limit_violated", bp1)
        ELSE Ok(bp1)

\* what calc_speeds returns when it returns
calc_speeds_value(bp, offset, speed, adj_ramp_up_time) ==
    <<At(bp.points, bp.idx_curr).speed_limit,
      TargetWithin(bp.points, bp.idx_curr, offset + speed * adj_ramp_up_time,
                   At(bp.points, bp.idx_curr).speed_target)>>

\* recalc, the `while bp_curr.offset <= speed_points[idx].offset` loop: idx
\* is decremented past the speed points the curve has not come back to yet;
\* decrementing idx = 0 panics (None)
RECURSIVE SkipSpeedPoints(_, _, _)
SkipSpeedPoints(speed_points, idx, offset) ==
    IF idx < 0 THEN None
    ELSE IF offset <= At(speed_points, idx).offset
         THEN SkipSpeedPoints(speed_points, idx - 1, offset)
    ELSE idx

\* recalc, one iteration of the inner `loop`: a braking point is added
\* behind the last one; again tells whether the loop goes on, which it does
\* until the curve breaks through the speed limit or passes the beginning of
\* the path.  decel = None: update_res fails; dt_fresh: train_state.dt is fresh
CurveStep(points, idx0, path_tpc, decel, dt_fresh) ==
    LET bp_curr == Last(points)
        idx == SkipSpeedPoints(path_tpc.speed_points, idx0, bp_curr.offset)
        at == [points |-> points, idx |-> idx, again |-> FALSE]
    IN  IF idx = None THEN Panic("speed_points_index", at)
        ELSE
        LET speed_limit == Abs(At(path_tpc.speed_points, idx).speed_limit)
            breaks == speed_limit < bp_curr.speed_limit + vel_change(decel)
            pt == IF breaks
                  THEN BrakingPoint(bp_curr.offset - BrakeDt * speed_limit,
                                    speed_limit, bp_curr.speed_target)
                  ELSE BrakingPoint(
                           bp_curr.offset - BrakeDt *
                               (bp_curr.speed_limit + vel_change(decel) \div 2),
                           bp_curr.speed_limit + vel_change(decel),
                           bp_curr.speed_target)
            points1 == Append(points, pt)
        IN  IF decel = None THEN Err("update_res", at)
            ELSE IF ~(decel > 0) THEN Err("brake_force", at)
            ELSE IF ~dt_fresh THEN Err("stale_read", at)
            ELSE IF breaks /\ bp_curr.speed_limit = speed_limit
                 THEN Ok([points |-> points1, idx |-> idx, again |-> FALSE])
            ELSE IF pt.offset < path_tpc.offset_begin
                 THEN Ok([points |-> points1, idx |-> idx, again |-> FALSE])
            ELSE Ok([points |-> points1, idx |-> idx, again |-> TRUE])

\* recalc, the inner `loop`: CurveStep until it breaks or fails
RECURSIVE BrakingCurve(_, _, _, _, _)
CurveNext(r, path_tpc, decel, dt_fresh) ==
    IF r.res = "Ok" /\ r.v.again
    THEN BrakingCurve(r.v.points, r.v.idx, path_tpc, decel, dt_fresh)
    ELSE r

BrakingCurve(points, idx0, path_tpc, decel, dt_fresh) ==
    CurveNext(CurveStep(points, idx0, path_tpc, decel, dt_fresh),
              path_tpc, decel, dt_fresh)

\* recalc, lines 192-196: the speed point idx is pushed as a braking point
WithSpeedPoint(points, path_tpc, idx) ==
    Append(points, BrakingPoint(At(path_tpc.speed_points, idx).offset,
                                Abs(At(path_tpc.speed_points, idx).speed_limit),
                                Abs(At(path_tpc.speed_points, idx).speed_limit)))

\* recalc, line 114: the speed point idx allows more than the last point
CurveNeeded(points, path_tpc, idx) ==
    Abs(At(path_tpc.speed_points, idx).speed_limit) > Last(points).speed_limit

\* recalc, the outer `while 0 < idx`: the speed points are visited from the
\* last one to the first one
RECURSIVE RecalcFrom(_, _, _, _, _)
RecalcFrom(points, idx0, path_tpc, decel, dt_fresh) ==
    IF ~(0 < idx0) THEN Ok(points)
    ELSE
    LET idx1 == idx0 - 1
        curve == IF CurveNeeded(points, path_tpc, idx1)
                 THEN BrakingCurve(points, idx1, path_tpc, decel, dt_fresh)
                 ELSE Ok([points |-> points, idx |-> idx1])
    IN  IF curve.res # "Ok"
        THEN [res |-> curve.res, site |-> curve.site, v |-> curve.v.points]
        ELSE RecalcFrom(WithSpeedPoint(curve.v.points, path_tpc, curve.v.idx),
                        curve.v.idx, path_tpc, decel, dt_fresh)

\* BrakingPoints::recalc: the points are rebuilt from the end of the path,
\* then the cursor is put on the last point (the beginning of the path)
BrakingPoints_recalc(bp, path_tpc, decel, dt_fresh) ==
    LET first == <<BrakingPoint(path_tpc.offset_end, 0, 0)>>
        r == IF decel = None THEN Err("update_res", first)
             ELSE RecalcFrom(first, Len(path_tpc.speed_points), path_tpc,
                             decel, dt_fresh)
    IN  IF r.res = "Ok"
        THEN Ok([points |-> r.v, idx_curr |-> Len(r.v) - 1])
        ELSE [res |-> r.res, site |-> r.site,
              v |-> [points |-> r.v, idx_curr |-> bp.idx_curr]]

\* ------------------------------------- Locomotive: mass, mu and force_max
\* uc::ACC_GRAV in the units of the model
ACC_GRAV == 2

\* the Locomotive fields that the mass and traction setters work on; the
\* masses of the powertrain components are fc_mass, gen_mass and res_mass
LocomotiveOf(loco_type, mass, mu, force_max, baseline_mass, ballast_mass,
             fc_mass, gen_mass, res_mass) ==
    [loco_type |-> loco_type, mass |-> mass, mu |-> mu, force_max |-> force_max,
     baseline_mass |-> baseline_mass, ballast_mass |-> ballast_mass,
     fc_mass |-> fc_mass, gen_mass |-> gen_mass, res_mass |-> res_mass]

\* Locomotive::default: a ConventionalLoco with its mass and force_max set
Locomotive_default ==
    LocomotiveOf("ConventionalLoco", 1, None, 2, None, None, None, None, None)

\* the masses of the powertrain components of the variant
component_masses(L) ==
    CASE L.loco_type = "ConventionalLoco" -> <<L.fc_mass, L.gen_mass>>
      [] L.loco_type = "HybridLoco" -> <<L.fc_mass, L.gen_mass, L.res_mass>>
      [] L.loco_type = "BatteryElectricLoco" -> <<L.res_mass>>
      [] OTHER -> << >>

\* a derivation that takes missing component masses for zero
derived_mass_lenient(L) ==
    LET present == SelectSeq(component_masses(L), LAMBDA x : x # None) IN
    IF L.baseline_mass # None /\ L.ballast_mass # None
    THEN Ok(SumSeq(present) + L.baseline_mass + L.ballast_mass)
    ELSE Ok(None)

\* Locomotive::derived_mass (the inherent method): v is the mass, or None
Locomotive_derived_mass(L) ==
    LET comps == component_masses(L) IN
    IF L.baseline_mass # None /\ L.ballast_mass # None
    THEN IF L.loco_type = "DummyLoco" THEN Err("dummy_mass", None)
         ELSE IF \A k \in DOMAIN comps : comps[k] # None
              THEN Ok(SumSeq(comps) + L.baseline_mass + L.ballast_mass)
         ELSE Err("component_mass_missing", None)
    ELSE IF L.baseline_mass = None /\ L.ballast_mass = None
    THEN IF L.loco_type = "DummyLoco" THEN Ok(0)
         ELSE IF \A k \in DOMAIN comps : comps[k] = None THEN Ok(None)
         ELSE Err("component_mass_set", None)
    ELSE Err("baseline_or_ballast", None)

\* Locomotive::mass
Locomotive_mass(L) ==
    LET derived_mass == Locomotive_derived_mass(L) IN
    IF derived_mass.res # "Ok" THEN derived_mass
    ELSE IF derived_mass.v # None /\ L.mass # None
         THEN IF almost_eq_uom(L.mass, derived_mass.v) THEN Ok(L.mass)
              ELSE Err("mass_mismatch", None)
    ELSE IF L.mass # None THEN Ok(L.mass) ELSE Ok(derived_mass.v)

\* ConventionalLoco / HybridLoco / BatteryElectricLoco::expunge_mass_fields
expunge_mass_fields(L) ==
    CASE L.loco_type = "ConventionalLoco" ->
            [L EXCEPT !.fc_mass = None, !.gen_mass = None]
      [] L.loco_type = "HybridLoco" ->
            [L EXCEPT !.fc_mass = None, !.gen_mass = None, !.res_mass = None]
      [] L.loco_type = "BatteryElectricLoco" -> [L EXCEPT !.res_mass = None]
      [] OTHER -> L

\* Locomotive::check_force_max
check_force_max(L) ==
    (L.mu # None /\ L.mass # None) =>
        almost_eq_uom(L.force_max, L.mu * L.mass * ACC_GRAV)

\* Locomotive::mu and Locomotive::force_max: v is the value returned
Locomotive_mu(L) ==
    IF check_force_max(L) THEN Ok(L.mu) ELSE Err("check_force_max", None)
Locomotive_force_max(L) ==
    IF check_force_max(L) THEN Ok(L.force_max) ELSE Err("check_force_max", None)

\* Locomotive::set_mass; new_mass = None derives the mass
Locomotive_set_mass(L, new_mass, side_effect) ==
    LET derived_mass == Locomotive_derived_mass(L)
        L1 == IF new_mass # None
              THEN [(IF derived_mass.v # None /\ derived_mass.v # new_mass
                     THEN expunge_mass_fields(L) ELSE L)
                    EXCEPT !.mass = new_mass]
              ELSE [L EXCEPT !.mass = derived_mass.v]
        mu == Locomotive_mu(L1)
        mass == Locomotive_mass(L1)
    IN  IF side_effect # "None" THEN Err("side_effect", L)
        ELSE IF derived_mass.res # "Ok" THEN Err(derived_mass.site, L)
        ELSE IF new_mass = None /\ derived_mass.v = None THEN Err("no_mass", L)
        ELSE IF mu.res # "Ok" THEN Err(mu.site, L1)
        ELSE IF mu.v = None THEN Err("mu_not_set", L1)
        ELSE IF mass.res # "Ok" THEN Err(mass.site, L1)
        ELSE IF mass.v = None THEN Err("mass_not_set", L1)
        ELSE Ok([L1 EXCEPT !.force_max = mu.v * mass.v * ACC_GRAV])

\* Locomotive::set_force_max
Locomotive_set_force_max(L, force_max, side_effect) ==
    LET L1 == [L EXCEPT !.force_max = force_max]
        mu == Locomotive_mu(L1)
    IN  CASE side_effect = "Mass" ->
                IF mu.res # "Ok" THEN Err(mu.site, L1)
                ELSE IF mu.v = None THEN Err("mu_not_set", L1)
                ELSE Locomotive_set_mass(L1, force_max \div (mu.v * ACC_GRAV), "None")
          [] side_effect = "UpdateMu" ->
                Ok([L1 EXCEPT !.mu = IF L1.mass = None THEN None
                                     ELSE force_max \div (L1.mass * ACC_GRAV)])
          [] side_effect = "SetMuToNone" -> Ok([L1 EXCEPT !.mu = None])
          [] side_effect = "SetMassToNone" -> Ok([L1 EXCEPT !.mass = None])
          [] OTHER -> Ok([L1 EXCEPT !.mu = None, !.mass = None])

\* Locomotive::set_mu
Locomotive_set_mu(L, mu, mu_side_effect) ==
    LET L1 == [L EXCEPT !.mu = mu]
        mass == Locomotive_mass(L1)
    IN  CASE mu_side_effect = "Mass" ->
                Locomotive_set_mass(L1, L1.force_max \div (mu * ACC_GRAV), "None")
          [] mu_side_effect = "ForceMax" ->
                IF mass.res # "Ok" THEN Err(mass.site, L1)
                ELSE IF mass.v = None THEN Err("mass_not_set", L1)
                ELSE Ok([L1 EXCEPT !.force_max = mu * ACC_GRAV * mass.v])
          [] OTHER -> Ok([L1 EXCEPT !.mass = None])

\* ------------------------------------------------------- save_interval
\* the powertrain components of a variant that keep a history
SavingComponents(loco_type) ==
    CASE loco_type = "ConventionalLoco" -> <<"fc", "gen", "edrv">>
      [] loco_type = "HybridLoco" -> <<"fc", "gen", "res", "edrv">>
      [] loco_type = "BatteryElectricLoco" -> <<"res", "edrv">>
      [] OTHER -> << >>

\* the save_interval of a Locomotive and of each of its components
SavingLoco(loco_type, save_interval, components) ==
    [loco_type |-> loco_type, save_interval |-> save_interval,
     components |-> components]

\* nothing has been constructed
NotBuilt == [kind |-> "none"]

\* Locomotive::set_save_interval; a DummyLoco has no component to update
Locomotive_set_save_interval(loco, save_interval) ==
    [loco EXCEPT !.save_interval = save_interval,
                 !.components = [k \in DOMAIN @ |-> save_interval]]

\* Consist::set_save_interval
Consist_set_save_interval(con, save_interval) ==
    [con EXCEPT !.save_interval = save_interval,
                !.loco_vec = [k \in DOMAIN @ |->
                                 Locomotive_set_save_interval(@[k], save_interval)]]

\* Consist::new
Consist_new(loco_vec, save_interval) ==
    Consist_set_save_interval(
        [save_interval |-> save_interval, loco_vec |-> loco_vec], save_interval)

\* Locomotive::default, default_battery_electric_loco and
\* default_hybrid_electric_loco: Some(1) throughout
Locomotive_default_saving(loco_type) ==
    Locomotive_set_save_interval(
        SavingLoco(loco_type, 1, [k \in DOMAIN SavingComponents(loco_type) |-> 1]), 1)

\* Consist::default
Consist_default ==
    Consist_set_save_interval(
        [save_interval |-> 1,
         loco_vec |-> <<Locomotive_default_saving("ConventionalLoco"),
                        Locomotive_default_saving("BatteryElectricLoco"),
                        Locomotive_default_saving("HybridLoco"),
                        Locomotive_default_saving("ConventionalLoco"),
                        Locomotive_default_saving("ConventionalLoco"),
                        Locomotive_default_saving("ConventionalLoco")>>], 1)

\* ConsistSimulation::new and ConsistSimulation::default; the simulation
\* has no save_interval of its own
ConsistSimulation_new(consist, save_interval) ==
    [kind |-> "ConsistSimulation",
     loco_con |-> Consist_set_save_interval(consist, save_interval)]
ConsistSimulation_default == ConsistSimulation_new(Consist_default, 1)

\* From<SetSpeedTrainSimBuilder> for SetSpeedTrainSim
SetSpeedTrainSim_from(value) ==
    [kind |-> "SetSpeedTrainSim", save_interval |-> value.save_interval,
     loco_con |-> value.loco_con]

\* SetSpeedTrainSim::default
SetSpeedTrainSim_default ==
    [kind |-> "SetSpeedTrainSim", save_interval |-> None,
     loco_con |-> Consist_default]

\* set_save_interval of SetSpeedTrainSim and of ConsistSimulation
Sim_set_save_interval(S, save_interval) ==
    IF S.kind = "SetSpeedTrainSim"
    THEN [S EXCEPT !.save_interval = save_interval,
                   !.loco_con = Consist_set_save_interval(@, save_interval)]
    ELSE [S EXCEPT !.loco_con = Consist_set_save_interval(@, save_interval)]

\* get_save_interval: SetSpeedTrainSim asserts that its own value is the
\* one of its consist, ConsistSimulation returns the one of its consist
Sim_get_save_interval(S) ==
    IF S.kind = "SetSpeedTrainSim"
    THEN IF S.save_interval = S.loco_con.save_interval
         THEN Ok(S.save_interval) ELSE Panic("assert_eq", None)
    ELSE Ok(S.loco_con.save_interval)

\* the variants of PowerDistributionControlType
PowerDistributionControlType == {"RESGreedy", "Proportional", "FrontAndBack"}

\* Consist::new with the policy pdct
Consist_new_pdct(types, pdct) ==
    LET Cn == NewConsist(types) IN
    [f \in DOMAIN Cn \cup {"pdct"} |-> IF f = "pdct" THEN pdct ELSE Cn[f]]

\* Consist::set_pdct_prop and Consist::set_pdct_resgreedy
set_pdct_prop(Cn) == [Cn EXCEPT !.pdct = "Proportional"]
set_pdct_resgreedy(Cn) == [Cn EXCEPT !.pdct = "RESGreedy"]

\* ----------------------------------------------------- BatteryElectricLoco
\* the RGWDB controls, what the storage holds above its minimum state of
\* charge (usable) and below its maximum (headroom), its rated power, and
\* the capability set by the last set_curr_pwr_max_out
BatteryElectricLoco(speed_soc_disch_buffer, speed_soc_disch_buffer_coeff,
                    speed_soc_regen_buffer, speed_soc_regen_buffer_coeff,
                    usable, headroom) ==
    [speed_soc_disch_buffer |-> speed_soc_disch_buffer,
     speed_soc_disch_buffer_coeff |-> speed_soc_disch_buffer_coeff,
     speed_soc_regen_buffer |-> speed_soc_regen_buffer,
     speed_soc_regen_buffer_coeff |-> speed_soc_regen_buffer_coeff,
     usable |-> usable, headroom |-> headroom, pwr_out_max |-> 4,
     disch_buffer |-> 0, chrg_buffer |-> 0, pwr_prop_max |-> 0,
     pwr_charge_max |-> 0]

BatteryElectricLoco_default == BatteryElectricLoco(None, None, None, None, 3, 3)

\* a buffer that is not floored at zero
buffer_energy_unfloored(mass, v_hi, v_lo, coeff) ==
    ((mass * (v_hi * v_hi - v_lo * v_lo)) \div 2) * coeff

\* 0.5 * mass * (v_hi^2 - v_lo^2), floored at zero, times the coefficient
buffer_energy(mass, v_hi, v_lo, coeff) ==
    Max2((mass * (v_hi * v_hi - v_lo * v_lo)) \div 2, 0) * coeff

\* disch_buffer and chrg_buffer of BatteryElectricLoco::set_curr_pwr_max_out
disch_buffer(B, mass_for_loco, train_speed) ==
    buffer_energy(mass_for_loco, B.speed_soc_disch_buffer, train_speed,
                  B.speed_soc_disch_buffer_coeff)
chrg_buffer(B, mass_for_loco, train_speed) ==
    buffer_energy(mass_for_loco, train_speed, B.speed_soc_regen_buffer,
                  B.speed_soc_regen_buffer_coeff)

\* ReversibleEnergyStorage::set_curr_pwr_out_max: the rated power, ramped
\* down when the energy within reach of the bound is less than the buffer
pwr_within_buffer(pwr_out_max, margin, buffer) ==
    IF margin >= buffer THEN pwr_out_max ELSE (pwr_out_max * margin) \div buffer

\* BatteryElectricLoco::set_curr_pwr_max_out
BatteryElectricLoco_set_curr_pwr_max_out(B, train_mass, train_speed) ==
    IF train_mass = None THEN Err("train_mass", B)
    ELSE IF train_speed = None THEN Err("train_speed", B)
    ELSE IF B.speed_soc_disch_buffer = None THEN Err("speed_soc_disch_buffer", B)
    ELSE IF B.speed_soc_disch_buffer_coeff = None
         THEN Err("speed_soc_disch_buffer_coeff", B)
    ELSE IF B.speed_soc_regen_buffer = None THEN Err("speed_soc_regen_buffer", B)
    ELSE IF B.speed_soc_regen_buffer_coeff = None
         THEN Err("speed_soc_regen_buffer_coeff", B)
    ELSE LET db == disch_buffer(B, train_mass, train_speed)
             cb == chrg_buffer(B, train_mass, train_speed)
         IN  Ok([B EXCEPT !.disch_buffer = db, !.chrg_buffer = cb,
                          !.pwr_prop_max = pwr_within_buffer(B.pwr_out_max, B.usable, db),
                          !.pwr_charge_max =
                              pwr_within_buffer(B.pwr_out_max, B.headroom, cb)])

\* ------------------------------------------------ LocomotiveSimulationVec
\* no powertrain component fails
NoFail == [at |-> 0, in |-> "none"]

\* one LocomotiveSimulation of the vector and where its walk() stands
LocoSim(loco_unit, pt, at) == [loco_unit |-> loco_unit, power_trace |-> pt, pc |-> at]

\* one pass through the loop of LocomotiveSimulation::walk, for traces of
\* two samples or more: the loop is left, or step() is called
walk_iter(L, pt) ==
    IF ~is_fresh(L, "i") THEN LocoSim(L, pt, "failed")
    ELSE IF L.i > PowerTrace_len(pt) - 2
         THEN LocoSim(L, pt, IF L.i = PowerTrace_len(pt) - 1 THEN "done" ELSE "failed")
    ELSE LET r == LocomotiveSimulation_step(L, pt, NoFail) IN
         LocoSim(r.v, pt, CASE r.res = "Ok" -> "walking"
                            [] r.res = "Err" -> "failed"
                            [] OTHER -> "panicked")

\* LocomotiveSimulation::walk, run to its end by one thread
RECURSIVE LocomotiveSimulation_walk(_, _)
LocomotiveSimulation_walk(L, pt) ==
    LET s == walk_iter(L, pt) IN
    IF s.pc = "walking" THEN LocomotiveSimulation_walk(s.loco_unit, pt) ELSE s

\* LocomotiveSimulationVec::new
LocomotiveSimulationVec_new(value) == [mode |-> "new", res |-> "", insts |-> value]

\* a loop pass of instance k that takes the trace of the first instance
walk_iter_shared_trace(insts, k) ==
    LET s == walk_iter(insts[k].loco_unit, insts[1].power_trace) IN
    [s EXCEPT !.power_trace = insts[k].power_trace]

\* the closure of try_for_each on instance k: loco_sim.walk() has the
\* exclusive borrow of that instance
walk_iter_of(insts, k) == walk_iter(insts[k].loco_unit, insts[k].power_trace)

\* ------------------------------------------------------------------ state
VARIABLES
    sim,          \* which simulator is running: "loco", "consist" or "train"
    loco_unit,    \* LocomotiveSimulation.loco_unit
    loco_con,     \* ConsistSimulation.loco_con / SetSpeedTrainSim.loco_con
    state,        \* SetSpeedTrainSim.state
    power_trace,  \* LocomotiveSimulation / ConsistSimulation power_trace
    speed_trace,  \* SetSpeedTrainSim.speed_trace
    pc,           \* "idle", "walking" (inside walk()) or "aborted" (panicked)
    last,         \* outcome of the last call; stepped: it ran step()
    failed,       \* some step() has returned a failure
    solved,       \* step indices whose step() completed
    history,      \* "new", "walk" (run by walk()) or "step" (stepped by hand)
    cell,         \* a state struct of tracked fields exercised field by field
    written,      \* fields of cell written since they were last reset
    was_read,     \* fields of cell read fresh since they were last reset
    out,          \* the last operation on cell and what it returned
    call,         \* the last call made outside a run: its arguments and result
    braking_points, \* BrakingPoints: points (end of the path first), idx_curr
    locomotive,   \* a standalone Locomotive: its masses, mu and force_max
    save_intervals, \* the save_interval of an owner and of everything it owns
    sim_vec,      \* LocomotiveSimulationVec: its instances and the walk over them
    bel,          \* a BatteryElectricLoco: its controls, storage and capability
    temp_trace    \* SetSpeedTrainSim.temp_trace: << >> (None) or its temperatures

sim_vars == <<sim, loco_unit, loco_con, state, pc, last, failed, solved, history>>
cell_vars == <<cell, written, was_read, out>>
\* the simulators and their traces, the position of the caller left out
run_vars == <<sim, loco_unit, loco_con, state, power_trace, speed_trace, last,
              failed, solved, history>>
\* the components exercised on their own
ext_vars == <<braking_points, locomotive, save_intervals, sim_vec, bel, temp_trace>>
\* what the calls on one component leave alone
brake_frame == <<run_vars, cell_vars, locomotive, save_intervals, sim_vec, bel,
                 temp_trace>>
mass_frame == <<run_vars, pc, cell_vars, braking_points, save_intervals, sim_vec,
                bel, temp_trace>>
save_frame == <<run_vars, cell_vars, braking_points, locomotive, sim_vec, bel,
                temp_trace>>
vec_frame == <<run_vars, cell_vars, braking_points, locomotive, save_intervals, bel,
               temp_trace>>
bel_frame == <<run_vars, pc, cell_vars, braking_points, locomotive, save_intervals,
               sim_vec, temp_trace>>
vars == <<sim, loco_unit, loco_con, state, power_trace, speed_trace, pc, last,
          failed, solved, history, cell, written, was_read, out, call,
          braking_points, locomotive, save_intervals, sim_vec, bel, temp_trace>>

\* PowerTrace values: time is 0, 1, 2, ...; the first sample requests no
\* power; the train data (train_speed, one entry per sample, and train_mass)
\* is present or absent
PowerTraceOf(pwr, with_speed, train_mass) ==
    [time |-> [k \in 1..Len(pwr) |-> k - 1],
     pwr |-> pwr,
     engine_on |-> [k \in 1..Len(pwr) |-> TRUE],
     train_speed |-> IF with_speed THEN [k \in 1..Len(pwr) |-> k] ELSE << >>,
     train_mass |-> train_mass]

PowerTrace_empty == PowerTraceOf(<< >>, FALSE, FALSE)

PowerTraces ==
    {PowerTraceOf(pwr, with_train, with_train) :
        pwr \in {<< >>} \cup {<<0>> \o s : s \in SeqsOf(PwrVals, 0, MaxLen - 1)},
        with_train \in BOOLEAN}

SpeedTraceOf(speed) ==
    [time |-> [k \in 1..Len(speed) |-> k - 1],
     speed |-> speed,
     engine_on |-> NoVec]

\* the train is at rest at the first sample
SpeedTraces == {SpeedTraceOf(s) :
    s \in {<< >>} \cup {<<0>> \o t : t \in SeqsOf(SpeedVals, 0, MaxLen - 1)}}

\* speed traces with and without the engine_on column
SpeedTracesWithEngine ==
    SpeedTraces \cup
    {[st EXCEPT !.engine_on = SomeVec([k \in 1..Len(st.time) |-> TRUE])] :
        st \in SpeedTraces}

NoLast == [op |-> "new", res |-> "Ok", site |-> "", stepped |-> FALSE]

\* a state struct with two tracked fields, as constructed
CellFields == <<"a", "b">>
NoVal == 0 - 1
NewCell == [a |-> 0, b |-> 0, fresh |-> Range(CellFields)]
NoOut == [op |-> "new", f |-> "", res |-> "Ok", site |-> "", val |-> NoVal,
          unwritten |-> {}, unread |-> {}]
NoCall == [op |-> "new"]

\* nothing has been called on the state struct or on the trace containers
InitAux ==
    /\ cell = NewCell
    /\ written = Range(CellFields)
    /\ was_read = {}
    /\ out = NoOut
    /\ call = NoCall
    /\ braking_points = BrakingPoints_default
    /\ locomotive = Locomotive_default
    /\ save_intervals = NotBuilt
    /\ sim_vec = LocomotiveSimulationVec_new(<< >>)
    /\ bel = BatteryElectricLoco_default
    /\ temp_trace = << >>

Init ==
    /\ InitAux
    /\ sim \in {"loco", "consist", "train"}
    /\ loco_unit \in IF sim = "loco"
                     THEN {NewLocomotive(t) : t \in PowertrainTypes}
                     ELSE {NewLocomotive("DummyLoco")}
    /\ loco_con \in IF sim = "loco"
                    THEN {NewConsist(<<"DummyLoco">>)}
                    ELSE {NewConsist(ts) : ts \in SeqsOf(PowertrainTypes, 1, MaxLocos)}
    /\ state = NewTrainState
    /\ power_trace \in IF sim = "train" THEN {PowerTrace_empty} ELSE PowerTraces
    /\ speed_trace \in IF sim = "train" THEN SpeedTraces ELSE {SpeedTraceOf(<< >>)}
    /\ pc = "idle"
    /\ last = NoLast
    /\ failed = FALSE
    /\ solved = {}
    /\ history = "new"

\* the step index of the running simulator and its freshness
StepIndex ==
    CASE sim = "loco" -> loco_unit.i
      [] sim = "consist" -> loco_con.state.i
      [] OTHER -> state.i

IndexFresh ==
    CASE sim = "loco" -> is_fresh(loco_unit, "i")
      [] sim = "consist" -> is_fresh(loco_con.state, "i")
      [] OTHER -> is_fresh(state, "i")

TraceLen == IF sim = "train" THEN SpeedTrace_len(speed_trace)
            ELSE PowerTrace_len(power_trace)

NumLocos == IF sim = "loco" THEN 1 ELSE Len(loco_con.loco_vec)

\* step() of the running simulator; v holds all three owners
OfLoco(r) ==
    [res |-> r.res, site |-> r.site,
     v |-> [loco_unit |-> r.v, loco_con |-> loco_con, state |-> state]]
OfConsist(r) ==
    [res |-> r.res, site |-> r.site,
     v |-> [loco_unit |-> loco_unit, loco_con |-> r.v, state |-> state]]
OfTrain(r) ==
    [res |-> r.res, site |-> r.site,
     v |-> [loco_unit |-> loco_unit, loco_con |-> r.v.loco_con, state |-> r.v.state]]

SimStep(alloc, fail) ==
    CASE sim = "loco" ->
            OfLoco(LocomotiveSimulation_step(loco_unit, power_trace, fail))
      [] sim = "consist" ->
            OfConsist(ConsistSimulation_step(loco_con, power_trace, alloc, fail))
      [] OTHER ->
            OfTrain(SetSpeedTrainSim_step(TrainSim(state, loco_con, temp_trace),
                                          speed_trace, alloc, fail))

IndexOf(v) ==
    CASE sim = "loco" -> v.loco_unit.i
      [] sim = "consist" -> v.loco_con.state.i
      [] OTHER -> v.state.i

\* the effect of one step() call on the simulator and on the bookkeeping
ApplyStep(r) ==
    /\ loco_unit' = r.v.loco_unit
    /\ loco_con' = r.v.loco_con
    /\ state' = r.v.state
    /\ failed' = (failed \/ r.res # "Ok")
    /\ solved' = IF r.res = "Ok" THEN solved \cup {IndexOf(r.v)} ELSE solved

\* ---------------------------------------------------------------- actions
\* Consist.set_assert_limits(val), called before the simulator is run
SetAssertLimits(val) ==
    /\ pc = "idle"
    /\ history = "new"
    /\ sim # "loco"
    /\ loco_con' = Consist_set_assert_limits(loco_con, val)
    /\ UNCHANGED <<sim, loco_unit, state, power_trace, speed_trace, pc, last,
                   failed, solved, history, cell_vars, call, ext_vars>>

\* step() called by hand has returned r
StepReturns(r) ==
    /\ ApplyStep(r)
    /\ last' = [op |-> "step", res |-> r.res, site |-> r.site, stepped |-> TRUE]
    /\ pc' = IF r.res = "Panic" THEN "aborted" ELSE "idle"

\* a direct call of step(): the simulator is stepped by hand, or step() is
\* retried after a failure
Step(alloc, fail) ==
    /\ pc = "idle"
    /\ history \in {"new", "step"} \/ failed
    /\ StepIndex <= MaxLen + 1
    /\ StepReturns(SimStep(alloc, fail))
    /\ history' = IF history = "new" THEN "step" ELSE history
    /\ UNCHANGED <<sim, power_trace, speed_trace, cell_vars, call, ext_vars>>

\* walk() is entered: the initial save_state, then the loop
Walk ==
    /\ pc = "idle"
    /\ history \in {"new", "walk"}
    /\ pc' = "walking"
    /\ last' = [op |-> "walk_begin", res |-> "Ok", site |-> "", stepped |-> FALSE]
    /\ history' = "walk"
    /\ UNCHANGED <<sim, loco_unit, loco_con, state, power_trace, speed_trace,
                   failed, solved, cell_vars, call, ext_vars>>

WalkReturns(res, site) ==
    /\ pc' = IF res = "Panic" THEN "aborted" ELSE "idle"
    /\ last' = [op |-> "walk", res |-> res, site |-> site, stepped |-> FALSE]
    /\ UNCHANGED <<loco_unit, loco_con, state, failed, solved, ext_vars>>

\* step() called by the loop of walk() has returned r: the loop goes on
\* after Ok and walk() returns the failure otherwise
WalkStepReturns(r) ==
    /\ ApplyStep(r)
    /\ pc' = CASE r.res = "Ok" -> "walking"
               [] r.res = "Err" -> "idle"
               [] OTHER -> "aborted"
    /\ last' = [op |-> IF r.res = "Ok" THEN "walk_step" ELSE "walk",
                res |-> r.res, site |-> r.site, stepped |-> TRUE]

\* one iteration of the loop of walk().  `len() - 2` is computed on usize:
\* for a trace of fewer than two samples the subtraction either panics
\* (overflow checks on) or wraps to a huge value (overflow checks off), in
\* which case the comparison is false and step() is called.
WalkIter(alloc, fail, wraps) ==
    /\ pc = "walking"
    /\ StepIndex <= MaxLen + 1
    /\ wraps => TraceLen < 2
    /\ IF ~IndexFresh THEN WalkReturns("Err", "stale_read")
       ELSE IF TraceLen < 2 /\ ~wraps THEN WalkReturns("Panic", "len_minus_2")
       ELSE IF TraceLen >= 2 /\ StepIndex > TraceLen - 2
            THEN IF sim = "loco" /\ ~(StepIndex = TraceLen - 1)
                 THEN WalkReturns("Err", "final_index")
                 ELSE WalkReturns("Ok", "")
       ELSE WalkStepReturns(SimStep(alloc, fail))
    /\ UNCHANGED <<sim, power_trace, speed_trace, history, cell_vars, call, ext_vars>>

\* ------------------------------------------- one state struct, field by field
\* operations of the tracked fields of one state struct, called one at a time
\* a check_and_reset pass is logged with the fields that had not been
\* written, and those written but never read fresh, when it was called
CellResult(op, f, r, val) ==
    [op |-> op, f |-> f, res |-> r.res, site |-> r.site,
     val |-> IF r.res = "Ok" THEN val ELSE NoVal,
     unwritten |-> IF op = "check_and_reset"
                   THEN Range(CellFields) \ written ELSE {},
     unread |-> IF op = "check_and_reset" THEN written \ was_read ELSE {}]

CellUpdate(f, v) ==
    /\ cell' = update(cell, f, v)
    /\ written' = written \cup {f}
    /\ out' = CellResult("update", f, Ok(cell'), v)
    /\ UNCHANGED <<sim_vars, power_trace, speed_trace, was_read, call, ext_vars>>

CellIncrement(f, d) ==
    /\ cell[f] + d <= MaxVal
    /\ cell' = increment(cell, f, d)
    /\ written' = written \cup {f}
    /\ out' = CellResult("increment", f, Ok(cell'), cell'[f])
    /\ UNCHANGED <<sim_vars, power_trace, speed_trace, was_read, call, ext_vars>>

CellMarkFresh(f) ==
    /\ cell' = mark_fresh(cell, {f})
    /\ written' = written \cup {f}
    /\ out' = CellResult("mark_fresh", f, Ok(cell'), NoVal)
    /\ UNCHANGED <<sim_vars, power_trace, speed_trace, was_read, call, ext_vars>>

CellGetFresh(f) ==
    LET r == get_fresh(cell, f) IN
    /\ cell' = r.v
    /\ out' = CellResult("get_fresh", f, r, r.v[f])
    /\ was_read' = IF r.res = "Ok" THEN was_read \cup {f} ELSE was_read
    /\ UNCHANGED <<sim_vars, power_trace, speed_trace, written, call, ext_vars>>

CellGetStale(f) ==
    LET r == get_stale(cell, f) IN
    /\ cell' = r.v
    /\ out' = CellResult("get_stale", f, r, r.v[f])
    /\ UNCHANGED <<sim_vars, power_trace, speed_trace, written, was_read, call, ext_vars>>

\* the fields a check_and_reset pass resets, given those written: all of
\* them, or those before the first one that was not written
ResetBy(order) ==
    LET k == FirstStale(written, order) IN
    IF k = 0 THEN Range(order) ELSE {order[j] : j \in 1..(k - 1)}

CellCheckAndReset ==
    LET r == check_and_reset_fields(cell, CellFields) IN
    /\ cell' = r.v
    /\ out' = CellResult("check_and_reset", "", r, NoVal)
    /\ written' = written \ ResetBy(CellFields)
    /\ was_read' = was_read \ ResetBy(CellFields)
    /\ UNCHANGED <<sim_vars, power_trace, speed_trace, call, ext_vars>>

\* no simulator runs while the state struct is exercised
InitCell ==
    /\ InitAux
    /\ sim = "loco"
    /\ loco_unit = NewLocomotive("DummyLoco")
    /\ loco_con = NewConsist(<<"DummyLoco">>)
    /\ state = NewTrainState
    /\ power_trace = PowerTrace_empty
    /\ speed_trace = SpeedTraceOf(<< >>)
    /\ pc = "idle"
    /\ last = NoLast
    /\ failed = FALSE
    /\ solved = {}
    /\ history = "new"

NextCell ==
    \/ \E f \in Range(CellFields), v \in 0..MaxVal : CellUpdate(f, v)
    \/ \E f \in Range(CellFields), d \in 1..MaxVal : CellIncrement(f, d)
    \/ \E f \in Range(CellFields) : CellMarkFresh(f)
    \/ \E f \in Range(CellFields) : CellGetFresh(f)
    \/ \E f \in Range(CellFields) : CellGetStale(f)
    \/ CellCheckAndReset

SpecCell == InitCell /\ [][NextCell]_vars

\* --------------------------------------------------- the trace containers
\* trim(start_idx, end_idx) called on a trace that no simulator is running;
\* call keeps the arguments, the trace as it was and the outcome
PowerTraceTrim(start_idx, end_idx) ==
    LET r == PowerTrace_trim(power_trace, start_idx, end_idx) IN
    /\ sim = "consist"
    /\ pc = "idle"
    /\ power_trace' = r.v
    /\ call' = [op |-> "PowerTrace.trim", start |-> start_idx, end |-> end_idx,
                pre |-> power_trace, res |-> r.res]
    /\ pc' = IF r.res = "Panic" THEN "aborted" ELSE "idle"
    /\ UNCHANGED <<sim, loco_unit, loco_con, state, speed_trace, last, failed,
                   solved, history, cell_vars, ext_vars>>

SpeedTraceTrim(start_idx, end_idx) ==
    LET r == SpeedTrace_trim(speed_trace, start_idx, end_idx) IN
    /\ sim = "train"
    /\ pc = "idle"
    /\ speed_trace' = r.v
    /\ call' = [op |-> "SpeedTrace.trim", start |-> start_idx, end |-> end_idx,
                pre |-> speed_trace, res |-> r.res]
    /\ pc' = IF r.res = "Panic" THEN "aborted" ELSE "idle"
    /\ UNCHANGED <<sim, loco_unit, loco_con, state, power_trace, last, failed,
                   solved, history, cell_vars, ext_vars>>

IdxArgs == {None} \cup 0..(MaxLen + 1)

\* a power trace or a speed trace, held by no running simulator
InitTrace ==
    /\ InitAux
    /\ sim \in {"consist", "train"}
    /\ loco_unit = NewLocomotive("DummyLoco")
    /\ loco_con = NewConsist(<<"DummyLoco">>)
    /\ state = NewTrainState
    /\ power_trace \in IF sim = "train" THEN {PowerTrace_empty} ELSE PowerTraces
    /\ speed_trace \in IF sim = "train" THEN SpeedTracesWithEngine
                                         ELSE {SpeedTraceOf(<< >>)}
    /\ pc = "idle"
    /\ last = NoLast
    /\ failed = FALSE
    /\ solved = {}
    /\ history = "new"

NextTrace ==
    \/ \E s \in IdxArgs, e \in IdxArgs : PowerTraceTrim(s, e)
    \/ \E s \in IdxArgs, e \in IdxArgs : SpeedTraceTrim(s, e)

SpecTrace == InitTrace /\ [][NextTrace]_vars

Next ==
    \/ \E val \in BOOLEAN : SetAssertLimits(val)
    \/ \E alloc \in PdctOutcomes, fail \in Fails(NumLocos) : Step(alloc, fail)
    \/ Walk
    \/ \E wraps \in BOOLEAN, alloc \in PdctOutcomes, fail \in Fails(NumLocos) :
          WalkIter(alloc, fail, wraps)

Spec == Init /\ [][Next]_vars

\* ------------------------------------------------ check_and_reset by hand
\* the tracked fields of a locomotive, of a consist and of the running
\* simulator (with those of the nested components) that are stale / fresh
LocoStale(L) ==
    (Range(LocomotiveState) \cup Range(PowertrainState(L.loco_type))) \ L.fresh
LocoFresh(L) ==
    (Range(LocomotiveState) \cup Range(PowertrainState(L.loco_type))) \cap L.fresh

ConsistSomeStale(Cn) ==
    \/ Range(ConsistState) \ Cn.state.fresh # {}
    \/ \E k \in DOMAIN Cn.loco_vec : LocoStale(Cn.loco_vec[k]) # {}
ConsistAllStale(Cn) ==
    /\ Range(ConsistState) \cap Cn.state.fresh = {}
    /\ \A k \in DOMAIN Cn.loco_vec : LocoFresh(Cn.loco_vec[k]) = {}

SomeStale ==
    CASE sim = "loco" -> LocoStale(loco_unit) # {}
      [] sim = "consist" -> ConsistSomeStale(loco_con)
      [] OTHER -> Range(TrainState) \ state.fresh # {} \/ ConsistSomeStale(loco_con)
AllStale ==
    CASE sim = "loco" -> LocoFresh(loco_unit) = {}
      [] sim = "consist" -> ConsistAllStale(loco_con)
      [] OTHER -> Range(TrainState) \cap state.fresh = {} /\ ConsistAllStale(loco_con)

\* check_and_reset() of the running simulator; v holds all three owners
SimCheckAndReset ==
    CASE sim = "loco" ->
            LET r == LocomotiveSimulation_check_and_reset(loco_unit) IN
            [res |-> r.res, site |-> r.site,
             v |-> [loco_unit |-> r.v, loco_con |-> loco_con, state |-> state]]
      [] sim = "consist" ->
            LET r == ConsistSimulation_check_and_reset(loco_con) IN
            [res |-> r.res, site |-> r.site,
             v |-> [loco_unit |-> loco_unit, loco_con |-> r.v, state |-> state]]
      [] OTHER ->
            LET r == SetSpeedTrainSim_check_and_reset(TrainSim(state, loco_con, temp_trace)) IN
            [res |-> r.res, site |-> r.site,
             v |-> [loco_unit |-> loco_unit, loco_con |-> r.v.loco_con,
                    state |-> r.v.state]]

\* a direct call of check_and_reset() on a simulator stepped by hand
CheckAndReset ==
    /\ pc = "idle"
    /\ history \in {"new", "step"}
    /\ LET r == SimCheckAndReset IN
        /\ loco_unit' = r.v.loco_unit
        /\ loco_con' = r.v.loco_con
        /\ state' = r.v.state
        /\ last' = [op |-> "check_and_reset", res |-> r.res, site |-> r.site,
                    stepped |-> FALSE]
    /\ history' = "step"
    /\ UNCHANGED <<sim, power_trace, speed_trace, pc, failed, solved,
                   cell_vars, call, ext_vars>>

NextApi ==
    \/ \E val \in BOOLEAN : SetAssertLimits(val)
    \/ \E alloc \in PdctOutcomes, fail \in Fails(NumLocos) : Step(alloc, fail)
    \/ CheckAndReset

SpecApi == Init /\ [][NextApi]_vars

\* ---------------------------------------------- trimming after a run
\* the trace of the running simulator
SimTrace == IF sim = "train" THEN speed_trace ELSE power_trace

\* trim_failed_steps() of the running simulator, called once the run is over;
\* call keeps the step index, the trace as it was and the outcome
TrimFailedSteps ==
    LET r == CASE sim = "loco" ->
                    LocomotiveSimulation_trim_failed_steps(loco_unit, power_trace)
               [] sim = "consist" ->
                    ConsistSimulation_trim_failed_steps(loco_con, power_trace)
               [] OTHER ->
                    SetSpeedTrainSim_trim_failed_steps(TrainSim(state, loco_con, temp_trace),
                                                       speed_trace)
    IN  /\ pc = "idle"
        /\ history # "trimmed"
        /\ power_trace' = IF sim = "train" THEN power_trace ELSE r.v
        /\ speed_trace' = IF sim = "train" THEN r.v ELSE speed_trace
        /\ call' = [op |-> "trim_failed_steps", i |-> StepIndex,
                    pre |-> SimTrace, res |-> r.res, site |-> r.site,
                    after |-> history]
        /\ pc' = IF r.res = "Panic" THEN "aborted" ELSE "idle"
        /\ history' = "trimmed"
        /\ UNCHANGED <<sim, loco_unit, loco_con, state, last, failed, solved,
                       cell_vars, ext_vars>>

NextTrim ==
    \/ Next
    \/ TrimFailedSteps

SpecTrim == Init /\ [][NextTrim]_vars

\* ----------------------------------------------- the braking curve of a path
\* paths: the speed points are sorted by offset and lie on the path
SpeedLimits == {1, 0 - 2}
SpeedPoint(offset, speed_limit) == [offset |-> offset, speed_limit |-> speed_limit]

IsSorted(speed_points) ==
    \A k \in 1..(Len(speed_points) - 1) :
        speed_points[k].offset <= speed_points[k + 1].offset

\* the speed points of a path that ends at offset_end
SpeedPointsOn(offset_end) ==
    {q \in SeqsOf({SpeedPoint(o, l) : o \in 0..offset_end, l \in SpeedLimits},
                  1, MaxPoints) : IsSorted(q)}

Paths ==
    UNION {{[offset_begin |-> 0, offset_end |-> e, speed_points |-> sp] :
               sp \in SpeedPointsOn(e)} : e \in 1..MaxOffset}

Decels == {None, 0, 2}

\* recalc(train_state, fric_brake, train_res, path_tpc)
Recalc(path_tpc, decel, dt_fresh) ==
    LET r == BrakingPoints_recalc(braking_points, path_tpc, decel, dt_fresh) IN
    /\ pc = "idle"
    /\ ~dt_fresh => decel = 2
    /\ braking_points' = r.v
    /\ call' = [op |-> "recalc", path_tpc |-> path_tpc, res |-> r.res,
                site |-> r.site]
    /\ pc' = IF r.res = "Panic" THEN "aborted" ELSE "idle"
    /\ UNCHANGED brake_frame

\* calc_speeds(offset, speed, adj_ramp_up_time)
CalcSpeeds(offset, speed, adj_ramp_up_time) ==
    LET r == BrakingPoints_calc_speeds(braking_points, offset, speed,
                                       adj_ramp_up_time) IN
    /\ pc = "idle"
    /\ braking_points' = r.v
    /\ call' = [op |-> "calc_speeds", offset |-> offset, res |-> r.res,
                site |-> r.site, idx_before |-> braking_points.idx_curr,
                val |-> IF r.res = "Ok"
                        THEN calc_speeds_value(r.v, offset, speed, adj_ramp_up_time)
                        ELSE << >>]
    /\ pc' = IF r.res = "Panic" THEN "aborted" ELSE "idle"
    /\ UNCHANGED brake_frame

NextBrake ==
    \/ \E path_tpc \in Paths, decel \in Decels, dt_fresh \in BOOLEAN :
          Recalc(path_tpc, decel, dt_fresh)
    \/ \E offset \in 0..MaxOffset, speed \in {0, 2}, ramp \in {0, 1} :
          CalcSpeeds(offset, speed, ramp)

SpecBrake == InitCell /\ [][NextBrake]_vars

\* --------------------------------------------- a locomotive on its own
MassVals == {None, 1, 2}
MuVals == {None, 1, 2}
ForceVals == {2, 4, MaxForce}
ForceMaxSideEffect == {"Mass", "UpdateMu", "SetMuToNone", "SetMassToNone",
                       "SetMassAndMuToNone"}
MuSideEffect == {"Mass", "ForceMax", "SetMassToNone"}
MassSideEffect == {"None", "Extrapolate"}

\* a quotient that the integers of the model represent exactly
Exact(a, b) == b # 0 /\ a % b = 0

\* the values stay within the range of the model
InMassRange(L) ==
    /\ L.force_max <= MaxForce
    /\ L.mass # None => L.mass <= MaxForce
    /\ L.mu # None => L.mu <= MaxForce

\* the Locomotive structs handed to init(): any combination of masses,
\* with force_max consistent with mu and mass when both are given
Locomotives ==
    {L \in {LocomotiveOf(t, m, mu, f, bm, bl, fc, gen, res) :
               t \in PowertrainTypes, m \in MassVals, mu \in MuVals,
               f \in ForceVals, bm \in {None, 1}, bl \in {None, 1},
               fc \in {None, 1}, gen \in {None, 1}, res \in {None, 1}} :
        check_force_max(L)}

\* Locomotive::init: mass() is evaluated; call keeps what derived_mass and
\* mass returned
LocoInit ==
    LET d == Locomotive_derived_mass(locomotive)
        r == Locomotive_mass(locomotive) IN
    /\ pc = "idle"
    /\ call.op = "new"
    /\ call' = [op |-> "init", res |-> r.res, site |-> r.site, val |-> r.v,
                derived |-> d]
    /\ UNCHANGED <<mass_frame, locomotive>>

\* what a setter leaves behind and returns
SetterReturns(op, arg, side_effect, r) ==
    /\ pc = "idle"
    /\ call.op # "new"
    /\ InMassRange(r.v)
    /\ locomotive' = r.v
    /\ call' = [op |-> op, arg |-> arg, side_effect |-> side_effect,
                res |-> r.res, site |-> r.site]
    /\ UNCHANGED mass_frame

SetMass(new_mass, side_effect) ==
    SetterReturns("set_mass", new_mass, side_effect,
                  Locomotive_set_mass(locomotive, new_mass, side_effect))

SetForceMax(force_max, side_effect) ==
    /\ (side_effect = "Mass" /\ locomotive.mu # None)
          => Exact(force_max, locomotive.mu * ACC_GRAV)
    /\ (side_effect = "UpdateMu" /\ locomotive.mass # None)
          => Exact(force_max, locomotive.mass * ACC_GRAV)
    /\ SetterReturns("set_force_max", force_max, side_effect,
                     Locomotive_set_force_max(locomotive, force_max, side_effect))

SetMu(mu, mu_side_effect) ==
    /\ mu_side_effect = "Mass" => Exact(locomotive.force_max, mu * ACC_GRAV)
    /\ SetterReturns("set_mu", mu, mu_side_effect,
                     Locomotive_set_mu(locomotive, mu, mu_side_effect))

\* the getters force_max() and mu()
GetForceMax ==
    LET r == Locomotive_force_max(locomotive) IN
    /\ pc = "idle"
    /\ call.op # "new"
    /\ call' = [op |-> "force_max", res |-> r.res, site |-> r.site, val |-> r.v]
    /\ UNCHANGED <<mass_frame, locomotive>>

GetMu ==
    LET r == Locomotive_mu(locomotive) IN
    /\ pc = "idle"
    /\ call.op # "new"
    /\ call' = [op |-> "mu", res |-> r.res, site |-> r.site, val |-> r.v]
    /\ UNCHANGED <<mass_frame, locomotive>>

\* as InitCell, with any Locomotive struct
InitMass ==
    /\ cell = NewCell
    /\ written = Range(CellFields)
    /\ was_read = {}
    /\ out = NoOut
    /\ call = NoCall
    /\ braking_points = BrakingPoints_default
    /\ save_intervals = NotBuilt
    /\ sim_vec = LocomotiveSimulationVec_new(<< >>)
    /\ bel = BatteryElectricLoco_default
    /\ temp_trace = << >>
    /\ locomotive \in Locomotives
    /\ sim = "loco"
    /\ loco_unit = NewLocomotive("DummyLoco")
    /\ loco_con = NewConsist(<<"DummyLoco">>)
    /\ state = NewTrainState
    /\ power_trace = PowerTrace_empty
    /\ speed_trace = SpeedTraceOf(<< >>)
    /\ pc = "idle"
    /\ last = NoLast
    /\ failed = FALSE
    /\ solved = {}
    /\ history = "new"

NextMass ==
    \/ LocoInit
    \/ \E new_mass \in MassVals, side_effect \in MassSideEffect :
          SetMass(new_mass, side_effect)
    \/ \E force_max \in ForceVals, side_effect \in ForceMaxSideEffect :
          SetForceMax(force_max, side_effect)
    \/ \E mu \in MuVals \ {None}, mu_side_effect \in MuSideEffect :
          SetMu(mu, mu_side_effect)
    \/ GetForceMax
    \/ GetMu

SpecMass == InitMass /\ [][NextMass]_vars

\* ------------------------------------------- save_interval propagation
SaveVals == {None} \cup 1..MaxSave

\* the locomotives handed to a constructor: Locomotive::__new__ keeps the
\* components as they were given
SavingLocos ==
    UNION {{SavingLoco(t, si, c) :
               si \in SaveVals, c \in [DOMAIN SavingComponents(t) -> SaveVals]} :
           t \in PowertrainTypes}
SavingLocoVecs == UNION {[1..n -> SavingLocos] : n \in 1..MaxLocos}

\* a constructor returns S
Built(op, S) ==
    /\ pc = "idle"
    /\ save_intervals = NotBuilt
    /\ save_intervals' = S
    /\ call' = [op |-> op, res |-> "Ok", site |-> ""]
    /\ UNCHANGED <<save_frame, pc>>

ConsistSimulationNew(loco_vec, con_interval, save_interval) ==
    Built("ConsistSimulation::new",
          ConsistSimulation_new(Consist_new(loco_vec, con_interval), save_interval))

ConsistSimulationDefault ==
    Built("ConsistSimulation::default", ConsistSimulation_default)

TrainSimFrom(loco_vec, con_interval, save_interval) ==
    Built("SetSpeedTrainSim::from",
          SetSpeedTrainSim_from([save_interval |-> save_interval,
                                 loco_con |-> Consist_new(loco_vec, con_interval)]))

TrainSimDefault == Built("SetSpeedTrainSim::default", SetSpeedTrainSim_default)

SetSaveInterval(save_interval) ==
    /\ pc = "idle"
    /\ save_intervals # NotBuilt
    /\ save_intervals' = Sim_set_save_interval(save_intervals, save_interval)
    /\ call' = [op |-> "set_save_interval", res |-> "Ok", site |-> ""]
    /\ UNCHANGED <<save_frame, pc>>

\* a failed assertion ends the program
GetSaveInterval ==
    LET r == Sim_get_save_interval(save_intervals) IN
    /\ pc = "idle"
    /\ save_intervals # NotBuilt
    /\ call' = [op |-> "get_save_interval", res |-> r.res, site |-> r.site,
                val |-> r.v]
    /\ pc' = IF r.res = "Panic" THEN "aborted" ELSE pc
    /\ UNCHANGED <<save_frame, save_intervals>>

NextSave ==
    \/ \E loco_vec \in SavingLocoVecs, con_interval, save_interval \in SaveVals :
          ConsistSimulationNew(loco_vec, con_interval, save_interval)
    \/ ConsistSimulationDefault
    \/ \E loco_vec \in SavingLocoVecs, con_interval, save_interval \in SaveVals :
          TrainSimFrom(loco_vec, con_interval, save_interval)
    \/ TrainSimDefault
    \/ \E save_interval \in SaveVals : SetSaveInterval(save_interval)
    \/ GetSaveInterval

SpecSave == InitCell /\ [][NextSave]_vars

\* -------------------------------------- LocomotiveSimulationVec::walk
VecTraces ==
    {PowerTraceOf(<<0>> \o t, with_train, with_train) :
        t \in SeqsOf(PwrVals, 1, MaxLen - 1), with_train \in BOOLEAN}
LocoSims ==
    {LocoSim(NewLocomotive(t), pt, "ready") : t \in PowertrainTypes, pt \in VecTraces}

VecSize == 2
Finished == {"done", "failed", "skipped", "panicked"}

\* walk(parallelize) is called
VecWalk(parallelize) ==
    /\ pc = "idle"
    /\ sim_vec.mode = "new"
    /\ sim_vec' = [sim_vec EXCEPT !.mode = IF parallelize THEN "par" ELSE "seq"]
    /\ call' = [op |-> "vec_walk", parallelize |-> parallelize]
    /\ UNCHANGED <<vec_frame, pc>>

\* whether instance k may be worked on: par_iter_mut hands the instances to
\* threads in any order, iter_mut visits them in order and stops at the
\* first error
MayRun(k) ==
    \/ sim_vec.mode = "par"
    \/ /\ sim_vec.mode = "seq"
       /\ \A j \in 1..(k - 1) : sim_vec.insts[j].pc = "done"

\* instance k enters walk(): save_state, then the loop
InstStart(k) ==
    /\ pc = "idle"
    /\ MayRun(k)
    /\ sim_vec.insts[k].pc = "ready"
    /\ sim_vec' = [sim_vec EXCEPT !.insts[k].pc = "walking"]
    /\ UNCHANGED <<vec_frame, pc, call>>

\* after an error the parallel try_for_each need not start the instances
\* that no thread has picked up
InstSkip(k) ==
    /\ pc = "idle"
    /\ sim_vec.mode = "par"
    /\ sim_vec.insts[k].pc = "ready"
    /\ \E j \in DOMAIN sim_vec.insts : sim_vec.insts[j].pc \in {"failed", "panicked"}
    /\ sim_vec' = [sim_vec EXCEPT !.insts[k].pc = "skipped"]
    /\ UNCHANGED <<vec_frame, pc, call>>

\* the thread of instance k makes one pass through the loop of its walk()
InstAdvance(k) ==
    /\ pc = "idle"
    /\ MayRun(k)
    /\ sim_vec.insts[k].pc = "walking"
    /\ sim_vec' = [sim_vec EXCEPT !.insts[k] = walk_iter_of(sim_vec.insts, k)]
    /\ UNCHANGED <<vec_frame, pc, call>>

\* try_for_each returns: Ok when every walk did, else an error; a panic of
\* a thread is raised again in the caller
VecWalkReturns ==
    LET pcs == {sim_vec.insts[k].pc : k \in DOMAIN sim_vec.insts} IN
    /\ pc = "idle"
    /\ sim_vec.mode \in {"par", "seq"}
    /\ IF sim_vec.mode = "par" THEN pcs \subseteq Finished
       ELSE pcs \subseteq {"done"} \/ pcs \cap {"failed", "panicked"} # {}
    /\ sim_vec' = [sim_vec EXCEPT !.mode = "returned",
                                  !.res = CASE "panicked" \in pcs -> "Panic"
                                            [] "failed" \in pcs -> "Err"
                                            [] OTHER -> "Ok"]
    /\ pc' = IF "panicked" \in pcs THEN "aborted" ELSE pc
    /\ UNCHANGED <<vec_frame, call>>

\* as InitCell, with a vector of two simulations
InitVec ==
    /\ cell = NewCell
    /\ written = Range(CellFields)
    /\ was_read = {}
    /\ out = NoOut
    /\ call = NoCall
    /\ braking_points = BrakingPoints_default
    /\ locomotive = Locomotive_default
    /\ save_intervals = NotBuilt
    /\ bel = BatteryElectricLoco_default
    /\ temp_trace = << >>
    /\ sim_vec \in {LocomotiveSimulationVec_new(v) : v \in [1..VecSize -> LocoSims]}
    /\ sim = "loco"
    /\ loco_unit = NewLocomotive("DummyLoco")
    /\ loco_con = NewConsist(<<"DummyLoco">>)
    /\ state = NewTrainState
    /\ power_trace = PowerTrace_empty
    /\ speed_trace = SpeedTraceOf(<< >>)
    /\ pc = "idle"
    /\ last = NoLast
    /\ failed = FALSE
    /\ solved = {}
    /\ history = "new"

NextVec ==
    \/ \E parallelize \in BOOLEAN : VecWalk(parallelize)
    \/ \E k \in 1..VecSize : InstStart(k)
    \/ \E k \in 1..VecSize : InstSkip(k)
    \/ \E k \in 1..VecSize : InstAdvance(k)
    \/ VecWalkReturns

SpecVec == InitVec /\ [][NextVec]_vars

\* ------------------------------------------------ the policy of a Consist
\* a ConsistSimulation over a Consist built with any of the policies
InitPdct ==
    /\ InitAux
    /\ sim = "consist"
    /\ loco_unit = NewLocomotive("DummyLoco")
    /\ loco_con \in {Consist_new_pdct(ts, p) :
                        ts \in SeqsOf(PowertrainTypes, 1, MaxLocos),
                        p \in PowerDistributionControlType}
    /\ state = NewTrainState
    /\ power_trace \in {pt \in VecTraces : pt.train_mass}
    /\ speed_trace = SpeedTraceOf(<< >>)
    /\ pc = "idle"
    /\ last = NoLast
    /\ failed = FALSE
    /\ solved = {}
    /\ history = "new"

\* a setter of the policy; it may be called at any time between two calls
SetPdct(op, Cn) ==
    /\ pc = "idle"
    /\ loco_con' = Cn
    /\ call' = [op |-> op, before |-> loco_con.pdct]
    /\ UNCHANGED <<sim, loco_unit, state, power_trace, speed_trace, pc, last,
                   failed, solved, history, cell_vars, ext_vars>>

SetPdctProp == SetPdct("set_pdct_prop", set_pdct_prop(loco_con))
SetPdctResgreedy == SetPdct("set_pdct_resgreedy", set_pdct_resgreedy(loco_con))

NextPdct ==
    \/ Next
    \/ SetPdctProp
    \/ SetPdctResgreedy

SpecPdct == InitPdct /\ [][NextPdct]_vars

\* ------------------------------------- the buffers of a BatteryElectricLoco
Speeds == 0..MaxSpeed
TrainMasses == {None, 2, 4}
Coeffs == {None, 1, 2}
SpeedThresholds == {None} \cup 1..MaxSpeed
Energies == {3, 8}

SetCurrPwrMaxOut(train_mass, train_speed) ==
    LET r == BatteryElectricLoco_set_curr_pwr_max_out(bel, train_mass, train_speed) IN
    /\ pc = "idle"
    /\ bel' = r.v
    /\ call' = [op |-> "set_curr_pwr_max_out", res |-> r.res, site |-> r.site,
                train_mass |-> train_mass, train_speed |-> train_speed]
    /\ UNCHANGED bel_frame

\* as InitCell, with a BatteryElectricLoco of any controls and state of
\* charge
InitBel ==
    /\ cell = NewCell
    /\ written = Range(CellFields)
    /\ was_read = {}
    /\ out = NoOut
    /\ call = NoCall
    /\ braking_points = BrakingPoints_default
    /\ locomotive = Locomotive_default
    /\ save_intervals = NotBuilt
    /\ sim_vec = LocomotiveSimulationVec_new(<< >>)
    /\ bel \in {BatteryElectricLoco(vd, cd, vr, cr, usable, headroom) :
                   vd \in SpeedThresholds, cd \in Coeffs,
                   vr \in SpeedThresholds, cr \in Coeffs,
                   usable \in Energies, headroom \in Energies}
    /\ temp_trace = << >>
    /\ sim = "loco"
    /\ loco_unit = NewLocomotive("DummyLoco")
    /\ loco_con = NewConsist(<<"DummyLoco">>)
    /\ state = NewTrainState
    /\ power_trace = PowerTrace_empty
    /\ speed_trace = SpeedTraceOf(<< >>)
    /\ pc = "idle"
    /\ last = NoLast
    /\ failed = FALSE
    /\ solved = {}
    /\ history = "new"

NextBel ==
    \E train_mass \in TrainMasses, train_speed \in {None} \cup Speeds :
        SetCurrPwrMaxOut(train_mass, train_speed)

SpecBel == InitBel /\ [][NextBel]_vars

\* ------------------------------ a LocomotiveSimulation with counted writes
InitFresh ==
    /\ InitAux
    /\ sim = "loco"
    /\ loco_unit \in {CountedLocomotive(t) : t \in PowertrainTypes}
    /\ loco_con = NewConsist(<<"DummyLoco">>)
    /\ state = NewTrainState
    /\ power_trace \in PowerTraces
    /\ speed_trace = SpeedTraceOf(<< >>)
    /\ pc = "idle"
    /\ last = NoLast
    /\ failed = FALSE
    /\ solved = {}
    /\ history = "new"

NextFresh ==
    \/ \E fail \in Fails(NumLocos) : Step("none", fail)
    \/ Walk
    \/ \E wraps \in BOOLEAN, fail \in Fails(NumLocos) : WalkIter("none", fail, wraps)

SpecFresh == InitFresh /\ [][NextFresh]_vars

\* ------------------------------ SetSpeedTrainSim with a temperature trace
\* << >> stands for None
TempTraces == {<< >>, <<20>>}

\* as Init for a SetSpeedTrainSim, built with or without a temperature trace
InitTemp ==
    /\ cell = NewCell
    /\ written = Range(CellFields)
    /\ was_read = {}
    /\ out = NoOut
    /\ call = NoCall
    /\ braking_points = BrakingPoints_default
    /\ locomotive = Locomotive_default
    /\ save_intervals = NotBuilt
    /\ sim_vec = LocomotiveSimulationVec_new(<< >>)
    /\ bel = BatteryElectricLoco_default
    /\ temp_trace \in TempTraces
    /\ sim = "train"
    /\ loco_unit = NewLocomotive("DummyLoco")
    /\ loco_con \in {NewConsist(ts) : ts \in SeqsOf(PowertrainTypes, 1, MaxLocos)}
    /\ state = NewTrainState
    /\ power_trace = PowerTrace_empty
    /\ speed_trace \in SpeedTraces
    /\ pc = "idle"
    /\ last = NoLast
    /\ failed = FALSE
    /\ solved = {}
    /\ history = "new"

SpecTemp == InitTemp /\ [][Next]_vars

\* ----------------------------------------------- pushing onto the traces
\* Option<T> of an element: None, or Some(v)
NoneOf == [some |-> FALSE]
SomeOf(v) == [some |-> TRUE, v |-> v]

\* SpeedTrace::push: time and speed are pushed first; the closure given to
\* engine_on.as_mut().map runs only when the trace holds Some(vec), pushes
\* when the element holds Some too and bails otherwise; the value of map,
\* with the closure's Err in it, is dropped, and push returns Ok(())
SpeedTrace_push(strace, speed_element) ==
    LET pushed == [strace EXCEPT !.time = Append(@, speed_element.time),
                                 !.speed = Append(@, speed_element.speed)]
    IN  Ok(IF strace.engine_on.some /\ speed_element.engine_on.some
           THEN [pushed EXCEPT !.engine_on =
                    SomeVec(Append(@.vec, speed_element.engine_on.v))]
           ELSE pushed)

\* PowerTrace::push: time, pwr and engine_on are pushed, train_speed only
\* when the element carries one; nothing is returned
PowerTrace_push(pt, pt_element) ==
    LET pushed == [pt EXCEPT !.time = Append(@, pt_element.time),
                             !.pwr = Append(@, pt_element.pwr),
                             !.engine_on = Append(@, pt_element.engine_on)]
    IN  Ok(IF pt_element.train_speed.some
           THEN [pushed EXCEPT !.train_speed = Append(@, pt_element.train_speed.v)]
           ELSE pushed)

\* the rows of a trace file come in the order of their times: the element
\* pushed onto n samples has time n, and a train speed of n + 1 as the rows
\* of PowerTraceOf have
SpeedTraceElements(n) ==
    [time : {n}, speed : {0, 2}, engine_on : {NoneOf, SomeOf(TRUE)}]

PowerTraceElements(n) ==
    [time : {n}, pwr : {0, 1}, engine_on : {TRUE},
     train_speed : {NoneOf, SomeOf(n + 1)}]

PushReturns(op, elem, pre, r) ==
    /\ call' = [op |-> op, elem |-> elem, pre |-> pre, res |-> r.res]
    /\ pc' = "idle"
    /\ UNCHANGED <<sim, loco_unit, loco_con, state, last, failed, solved,
                   history, cell_vars, ext_vars>>

\* push(speed_element) on a trace of fewer than MaxLen samples
SpeedTracePush(speed_element) ==
    /\ sim = "train"
    /\ pc = "idle"
    /\ SpeedTrace_len(speed_trace) < MaxLen
    /\ speed_trace' = SpeedTrace_push(speed_trace, speed_element).v
    /\ PushReturns("SpeedTrace.push", speed_element, speed_trace,
                   SpeedTrace_push(speed_trace, speed_element))
    /\ UNCHANGED power_trace

\* push(pt_element) on a trace of fewer than MaxLen samples and fewer than
\* MaxLen train speeds
PowerTracePush(pt_element) ==
    /\ sim = "consist"
    /\ pc = "idle"
    /\ PowerTrace_len(power_trace) < MaxLen
    /\ Len(power_trace.train_speed) < MaxLen
    /\ power_trace' = PowerTrace_push(power_trace, pt_element).v
    /\ PushReturns("PowerTrace.push", pt_element, power_trace,
                   PowerTrace_push(power_trace, pt_element))
    /\ UNCHANGED speed_trace

\* an empty trace, as from_csv_file starts with, or a speed trace built by
\* new with an empty engine_on column
InitPush ==
    /\ InitAux
    /\ sim \in {"consist", "train"}
    /\ loco_unit = NewLocomotive("DummyLoco")
    /\ loco_con = NewConsist(<<"DummyLoco">>)
    /\ state = NewTrainState
    /\ power_trace = PowerTrace_empty
    /\ speed_trace \in IF sim = "train"
                       THEN {SpeedTraceOf(<< >>),
                             [SpeedTraceOf(<< >>) EXCEPT !.engine_on = SomeVec(<< >>)]}
                       ELSE {SpeedTraceOf(<< >>)}
    /\ pc = "idle"
    /\ last = NoLast
    /\ failed = FALSE
    /\ solved = {}
    /\ history = "new"

NextPush ==
    \/ \E e \in SpeedTraceElements(SpeedTrace_len(speed_trace)) : SpeedTracePush(e)
    \/ \E e \in PowerTraceElements(PowerTrace_len(power_trace)) : PowerTracePush(e)
    \/ \E s \in IdxArgs, e \in IdxArgs : PowerTraceTrim(s, e)
    \/ \E s \in IdxArgs, e \in IdxArgs : SpeedTraceTrim(s, e)

SpecPush == InitPush /\ [][NextPush]_vars

\* ------------------------------------------- the locomotives of a consist
\* what the calls on loco_vec leave alone
loco_vec_frame == <<sim, loco_unit, state, power_trace, speed_trace, last, failed,
                    solved, history, cell_vars, ext_vars>>

\* Consist.set_loco_vec(loco_vec) on a consist that no simulator is running
SetLocoVec(types) ==
    /\ sim = "consist"
    /\ pc = "idle"
    /\ loco_con' = Consist_set_loco_vec(loco_con,
                       [k \in DOMAIN types |-> NewLocomotive(types[k])])
    /\ call' = [op |-> "set_loco_vec"]
    /\ pc' = "idle"
    /\ UNCHANGED loco_vec_frame

\* Consist.drain_loco_vec(start, end)
DrainLocoVec(start, end) ==
    /\ sim = "consist"
    /\ pc = "idle"
    /\ loco_con' = Consist_drain_loco_vec(loco_con, start, end).v
    /\ call' = [op |-> "drain_loco_vec", start |-> start, end |-> end,
                res |-> Consist_drain_loco_vec(loco_con, start, end).res]
    /\ pc' = IF call'.res = "Panic" THEN "aborted" ELSE "idle"
    /\ UNCHANGED loco_vec_frame

\* Consist.n_res_equipped(); call keeps the value returned
NResEquipped ==
    /\ sim = "consist"
    /\ pc = "idle"
    /\ loco_con' = Consist_n_res_equipped(loco_con).v
    /\ call' = [op |-> "n_res_equipped", ret |-> Consist_n_res_equipped(loco_con).n]
    /\ pc' = "idle"
    /\ UNCHANGED loco_vec_frame

\* Locomotive::fuel_converter is Some
fuel_converter(loco_type) == loco_type \in {"ConventionalLoco", "HybridLoco"}

\* pwr_out_max of a fuel converter and of a reversible energy store
FcPwrOutMax == 2
ResPwrOutMax == 1

\* Locomotive::get_pwr_rated: v is the power returned; the last branch
\* unwraps reversible_energy_storage() whatever it is
Locomotive_get_pwr_rated(loco_type) ==
    IF fuel_converter(loco_type) /\ reversible_energy_storage(loco_type)
    THEN Ok(FcPwrOutMax + ResPwrOutMax)
    ELSE IF fuel_converter(loco_type) THEN Ok(FcPwrOutMax)
    ELSE IF reversible_energy_storage(loco_type) THEN Ok(ResPwrOutMax)
    ELSE Panic("unwrap", None)

\* Consist::get_energy_fuel: zero for a BatteryElectricLoco, and for every
\* other locomotive the energy_fuel of fuel_converter().unwrap(), which is
\* zero in a locomotive as constructed; v is the sum returned
Consist_get_energy_fuel(Cn) ==
    IF \E k \in DOMAIN Cn.loco_vec :
          /\ Cn.loco_vec[k].loco_type # "BatteryElectricLoco"
          /\ ~fuel_converter(Cn.loco_vec[k].loco_type)
    THEN Panic("unwrap", None)
    ELSE Ok(SumSeq([k \in DOMAIN Cn.loco_vec |-> 0]))

\* a query has returned r, or has aborted
QueryReturns(op, r) ==
    /\ call' = [op |-> op, res |-> r.res, ret |-> r.v]
    /\ pc' = IF r.res = "Panic" THEN "aborted" ELSE "idle"
    /\ UNCHANGED <<loco_con, loco_vec_frame>>

\* Consist.get_energy_fuel()
GetEnergyFuel ==
    /\ sim = "consist"
    /\ pc = "idle"
    /\ QueryReturns("get_energy_fuel", Consist_get_energy_fuel(loco_con))

\* get_pwr_rated() of the locomotive at index k of the consist
GetPwrRated(k) ==
    /\ sim = "consist"
    /\ pc = "idle"
    /\ k \in DOMAIN loco_con.loco_vec
    /\ QueryReturns("get_pwr_rated",
                    Locomotive_get_pwr_rated(loco_con.loco_vec[k].loco_type))

\* a consist as Consist::new builds it, held by no running simulator
InitLocoVec ==
    /\ InitAux
    /\ sim = "consist"
    /\ loco_unit = NewLocomotive("DummyLoco")
    /\ loco_con \in {NewConsist(ts) : ts \in SeqsOf(PowertrainTypes, 1, MaxLocos)}
    /\ state = NewTrainState
    /\ power_trace = PowerTrace_empty
    /\ speed_trace = SpeedTraceOf(<< >>)
    /\ pc = "idle"
    /\ last = NoLast
    /\ failed = FALSE
    /\ solved = {}
    /\ history = "new"

NextLocoVec ==
    \/ \E ts \in SeqsOf(PowertrainTypes, 0, MaxLocos) : SetLocoVec(ts)
    \/ \E start \in 0..MaxLocos, end \in 0..(MaxLocos + 1) : DrainLocoVec(start, end)
    \/ NResEquipped
    \/ GetEnergyFuel
    \/ \E k \in 1..MaxLocos : GetPwrRated(k)

SpecLocoVec == InitLocoVec /\ [][NextLocoVec]_vars

\* ------------------------------------- recalc, one loop iteration at a time
\* paths as above, with speed points that allow no speed at all among them
SpeedLimitsWithStop == SpeedLimits \cup {0}

PathsWithStop ==
    UNION {{[offset_begin |-> 0, offset_end |-> e, speed_points |-> sp] :
               sp \in {q \in SeqsOf({SpeedPoint(o, l) : o \in 0..e,
                                        l \in SpeedLimitsWithStop}, 1, MaxPoints) :
                          IsSorted(q)}} : e \in 1..MaxOffset}

\* recalc is entered, lines 92-109: the points are cleared, the end of the
\* path is pushed, update_res is called and idx is put behind the last speed
\* point; call keeps the arguments and idx while recalc runs.  Whatever the
\* points were is cleared here, so the call on a new BrakingPoints shows
\* every run of the loops
RecalcBegin(path_tpc, decel, dt_fresh) ==
    /\ pc = "idle"
    /\ braking_points.points = << >>
    /\ ~dt_fresh => decel = 2
    /\ braking_points' = [braking_points EXCEPT
                             !.points = <<BrakingPoint(path_tpc.offset_end, 0, 0)>>]
    /\ call' = [op |-> "recalc", path_tpc |-> path_tpc, decel |-> decel,
                dt_fresh |-> dt_fresh, idx |-> Len(path_tpc.speed_points),
                res |-> IF decel = None THEN "Err" ELSE "",
                site |-> IF decel = None THEN "update_res" ELSE ""]
    /\ pc' = IF decel = None THEN "idle" ELSE "recalc_outer"
    /\ UNCHANGED brake_frame

\* the test of `while 0 < idx` and the statements around the inner loop: idx
\* is decremented and the speed point is pushed, unless the curve is needed
\* first; once idx is 0 the cursor is put on the last point and Ok returned
RecalcOuter ==
    /\ pc = "recalc_outer"
    /\ IF ~(0 < call.idx)
       THEN /\ braking_points' = [braking_points EXCEPT
                                     !.idx_curr = Len(braking_points.points) - 1]
            /\ call' = [call EXCEPT !.res = "Ok"]
            /\ pc' = "idle"
       ELSE IF CurveNeeded(braking_points.points, call.path_tpc, call.idx - 1)
       THEN /\ braking_points' = braking_points
            /\ call' = [call EXCEPT !.idx = @ - 1]
            /\ pc' = "recalc_inner"
       ELSE /\ braking_points' = [braking_points EXCEPT !.points =
                    WithSpeedPoint(@, call.path_tpc, call.idx - 1)]
            /\ call' = [call EXCEPT !.idx = @ - 1]
            /\ pc' = "recalc_outer"
    /\ UNCHANGED brake_frame

\* one iteration of the inner loop has ended as r
CurveStepReturns(r) ==
    /\ braking_points' = [braking_points EXCEPT !.points =
            IF r.res = "Ok" /\ ~r.v.again
            THEN WithSpeedPoint(r.v.points, call.path_tpc, r.v.idx)
            ELSE r.v.points]
    /\ call' = IF r.res = "Ok" THEN [call EXCEPT !.idx = r.v.idx]
               ELSE [call EXCEPT !.res = r.res, !.site = r.site]
    /\ pc' = IF r.res = "Panic" THEN "aborted"
             ELSE IF r.res = "Err" THEN "idle"
             ELSE IF r.v.again THEN "recalc_inner"
             ELSE "recalc_outer"

\* one iteration of the inner loop, and the push that follows its break
RecalcInner ==
    /\ pc = "recalc_inner"
    /\ CurveStepReturns(CurveStep(braking_points.points, call.idx, call.path_tpc,
                                  call.decel, call.dt_fresh))
    /\ UNCHANGED brake_frame

NextCurve ==
    \/ \E path_tpc \in PathsWithStop, decel \in Decels, dt_fresh \in BOOLEAN :
          RecalcBegin(path_tpc, decel, dt_fresh)
    \/ RecalcOuter
    \/ RecalcInner

SpecCurve == InitCell /\ [][NextCurve]_vars

\* every loop iteration that can be run is run
SpecCurveFair == SpecCurve /\ WF_vars(RecalcOuter) /\ WF_vars(RecalcInner)

\* the iterations taken one at a time leave what recalc as a whole leaves
StepwiseAgreesWithRecalc ==
    (call.op = "recalc" /\ pc \in {"idle", "aborted"}) =>
        LET r == BrakingPoints_recalc(braking_points, call.path_tpc, call.decel,
                                      call.dt_fresh)
        IN  /\ r.res = call.res /\ r.site = call.site
            /\ r.v.points = braking_points.points
            /\ r.res = "Ok" => r.v.idx_curr = braking_points.idx_curr

\* recalc is inside one of its loops
InRecalc == pc \in {"recalc_outer", "recalc_inner"}

\* the loops of recalc are left, by a return or by a panic
RecalcLoopsEnd == InRecalc ~> (pc \in {"idle", "aborted"})

\* ----------------------------------------------------------------- claims
\* the last call ran step() in a simulator that owns a consist
ConsistStepped == sim # "loco" /\ last.stepped

LocoSolved(k) == is_fresh(loco_con.loco_vec[k], "pwr_out")

\* C1: with assert_limits, a step whose Consist.solve_energy_consumption
\* returned Ok leaves state.pwr_out equal to state.pwr_out_req within the
\* tolerance; when the distributed sum differs from the request the call
\* returns an error before any locomotive is solved.
C1_PowerBalance ==
    (ConsistStepped /\ loco_con.assert_limits) =>
        /\ last.res = "Ok" =>
              almost_eq_uom(loco_con.state.pwr_out_req, loco_con.state.pwr_out)
        /\ last.site = "pwr_out_mismatch" =>
              /\ last.res = "Err"
              /\ ~almost_eq_uom(loco_con.state.pwr_out_req, loco_con.state.pwr_out)
              /\ \A k \in DOMAIN loco_con.loco_vec : ~LocoSolved(k)

\* C1 witness: a two-locomotive consist has distributed a non-zero request
\* under assert_limits and every locomotive has been solved
C1_Witness ==
    /\ sim = "consist" /\ last.stepped /\ last.res = "Ok"
    /\ loco_con.assert_limits
    /\ Len(loco_con.loco_vec) = 2
    /\ loco_con.state.pwr_out_req # 0
    /\ \A k \in DOMAIN loco_con.loco_vec : LocoSolved(k)

\* what the consist can deliver and absorb at any step
Capability == set_pwr_dyn_brake_max(loco_con.loco_vec)

ExceedsLimits(q) == q > Capability \/ (0 - q) > Capability

\* smallest trace index >= 1 whose request exceeds the limits, 0 if none
FirstExcess ==
    LET n == PowerTrace_len(power_trace)
        K == {k \in 1..(n - 1) : ExceedsLimits(At(power_trace.pwr, k))}
    IN  IF K = {} THEN 0 ELSE CHOOSE k \in K : \A j \in K : k <= j

\* C2: with assert_limits, if k is the smallest trace index >= 1 whose
\* request exceeds the consist limits, ConsistSimulation.walk returns an
\* error with loco_con.state.i = k, every step before k completed and no
\* step after k executed.
C2_WalkStopsAtFirstExcess ==
    (/\ sim = "consist" /\ history = "walk" /\ last.op = "walk"
     /\ loco_con.assert_limits
     /\ FirstExcess # 0
     /\ last.site \in {"", "exceeds_max_power", "exceeds_max_db_power"})
    => /\ last.res = "Err"
       /\ loco_con.state.i = FirstExcess
       /\ solved = 1..(FirstExcess - 1)

\* C3: get_fresh returns the value of a field only if the field has been
\* written (update, increment, mark_fresh) since it was last reset by
\* check_and_reset, and fails with a stale-read error otherwise; get_stale
\* returns the stored value whatever the flag and leaves the flag as it is;
\* every write marks the field fresh.
C3_TrackedRead ==
    /\ cell.fresh = written
    /\ out.op = "get_fresh" =>
          /\ (out.res = "Ok") <=> (out.f \in written)
          /\ out.res = "Ok" => out.val = cell[out.f]
          /\ out.res # "Ok" => (out.res = "Err" /\ out.site = "stale_read")
    /\ out.op = "get_stale" => (out.res = "Ok" /\ out.val = cell[out.f])
    /\ out.op \in {"update", "increment", "mark_fresh"} => out.f \in cell.fresh

\* C3 witness: after a reset only one field was written again, and the
\* fresh read of the other one failed
C3_Witness ==
    /\ out.op = "get_fresh" /\ out.f = "b" /\ out.res = "Err"
    /\ written = {"a"}
    /\ cell.a # 0

C4_CheckAndReset ==
    [][CheckAndReset =>
          /\ (last'.res = "Err") <=> SomeStale
          /\ last'.res \in {"Ok", "Err"}
          /\ last'.res = "Ok" => AllStale']_vars

\* C4 witness: check_and_reset passed on a train simulator after a completed
\* step, and left every field of the train and of its two locomotives stale
C4_Witness ==
    /\ sim = "train" /\ last.op = "check_and_reset" /\ last.res = "Ok"
    /\ 1 \in solved
    /\ Len(loco_con.loco_vec) = 2
    /\ AllStale

C7_WalkCompletes ==
    [][/\ (last'.stepped /\ last'.res = "Ok") => StepIndex' = StepIndex + 1
       /\ (TraceLen >= 2 /\ pc' = "walking") => StepIndex' <= TraceLen - 1
       /\ (TraceLen >= 2 /\ pc = "walking" /\ pc' = "walking")
             => StepIndex' = StepIndex + 1
       /\ (TraceLen >= 2 /\ pc = "walking" /\ pc' # "walking") => pc' = "idle"
       /\ (TraceLen >= 2 /\ pc = "walking" /\ last'.op = "walk"
             /\ last'.res = "Ok") => StepIndex' = TraceLen - 1]_vars

\* C7 witness: walk() has returned Ok on a three-sample speed trace after
\* completing the steps 1 and 2
C7_Witness ==
    /\ sim = "train" /\ last.op = "walk" /\ last.res = "Ok"
    /\ TraceLen = 3
    /\ StepIndex = 2
    /\ solved = {1, 2}

\* C8: walk() and step() never abort the process, whatever the trace.
C8_NeverAborts == pc # "aborted"

\* the last step reached the energy solve of the consist, which recorded
\* the request and the deficit
DeficitRecorded ==
    /\ ConsistStepped
    /\ {"pwr_out_max", "pwr_out_req", "pwr_out_deficit"} \subseteq loco_con.state.fresh

Columns(op, tr) ==
    IF op = "PowerTrace.trim"
    THEN <<tr.time, tr.pwr, tr.engine_on, tr.train_speed>>
    ELSE <<tr.time, tr.speed, tr.engine_on.vec>>

TraceNow == IF call.op = "PowerTrace.trim" THEN power_trace ELSE speed_trace

\* C10: trim(None, None) leaves the trace unchanged; trim(s, e) with
\* s <= e <= len() keeps exactly the samples at the indices s .. e - 1, in
\* their order, in every column, so that len() = e - s afterwards; trim with
\* e > len() returns an error and leaves the trace unchanged.
C10_TrimKeepsSlice ==
    call.op \in {"PowerTrace.trim", "SpeedTrace.trim"} =>
        LET n == Len(call.pre.time)
            s == IF call.start = None THEN 0 ELSE call.start
            e == IF call.end = None THEN n ELSE call.end
            before == Columns(call.op, call.pre)
            after == Columns(call.op, TraceNow)
        IN  /\ (call.start = None /\ call.end = None) =>
                  (call.res = "Ok" /\ TraceNow = call.pre)
            /\ (s <= e /\ e <= n) =>
                  /\ call.res = "Ok"
                  /\ Len(TraceNow.time) = e - s
                  /\ \A c \in DOMAIN before :
                        after[c] = IF before[c] = << >> THEN << >>
                                   ELSE Slice(before[c], s, e)
            /\ e > n => (call.res = "Err" /\ TraceNow = call.pre)

\* the last step index whose step() completed, 0 when none did
LastCompleted ==
    IF solved = {} THEN 0 ELSE CHOOSE k \in solved : \A j \in solved : j <= k

\* the columns of the trace that the simulators read, one entry per sample
RunColumns(tr) == IF sim = "train" THEN <<tr.time, tr.speed>> ELSE <<tr.time, tr.pwr>>

\* C11: trim_failed_steps returns an error and leaves the trace unchanged
\* when the step index is <= 1; otherwise, after a walk() that failed
\* part-way or ran to completion, the trace holds exactly the samples up to
\* and including the last step index that completed.
C11_TrimToLastCompleted ==
    (/\ call.op = "trim_failed_steps" /\ call.after = "walk" /\ last.op = "walk"
     /\ Len(call.pre.time) >= 2) =>
        /\ call.i <= 1 => (call.res = "Err" /\ SimTrace = call.pre)
        /\ call.i > 1 =>
              /\ call.res = "Ok"
              /\ \A c \in DOMAIN RunColumns(SimTrace) :
                    RunColumns(SimTrace)[c] =
                        Slice(RunColumns(call.pre)[c], 0, LastCompleted + 1)

\* C12: after recalc returns Ok the points start with (end of the path,
\* speed 0, target 0) and the offsets never increase from one point to the
\* next, for every path with sorted speed points.
C12_PointsDescend ==
    (call.op = "recalc" /\ call.res = "Ok") =>
        LET points == braking_points.points IN
        /\ points[1] = BrakingPoint(call.path_tpc.offset_end, 0, 0)
        /\ \A k \in 1..(Len(points) - 1) : points[k + 1].offset <= points[k].offset

\* C13: between two recalc calls a calc_speeds lookup never moves the cursor
\* away from the end of the path; the cursor is moved from where it was,
\* only over points that the queried offset has reached, and stops at the
\* first point that it has not reached.
C13_CursorForwardOnly ==
    [][call'.op = "calc_speeds" =>
          LET points == braking_points.points
              i0 == braking_points.idx_curr
              i1 == braking_points'.idx_curr
          IN  /\ braking_points'.points = points
              /\ i1 <= i0
              /\ call'.res = "Ok" =>
                    /\ \A j \in i1..(i0 - 1) :
                          InRange(points, j) => At(points, j).offset <= call'.offset
                    /\ i1 = 0 \/ At(points, i1 - 1).offset > call'.offset]_vars

\* C13 witness: a lookup has moved the cursor back by more than one point
\* and it is not at the end of the path yet
C13_Witness ==
    /\ call.op = "calc_speeds" /\ call.res = "Ok"
    /\ braking_points.idx_curr > 0
    /\ call.idx_before >= braking_points.idx_curr + 2

\* C14: in every Locomotive state reached through set_mass, set_force_max
\* and set_mu, whether the call returned Ok or an error, force_max equals
\* mu * mass * g when mu and mass are both set, so that force_max() and
\* mu() never fail their consistency check.
C14_ForceMaxConsistent ==
    /\ (locomotive.mu # None /\ locomotive.mass # None) =>
          almost_eq_uom(locomotive.force_max,
                        locomotive.mu * locomotive.mass * ACC_GRAV)
    /\ call.op \in {"force_max", "mu"} => call.res = "Ok"

\* every constituent mass of the variant: baseline, ballast, the components
ConstituentMasses(L) == <<L.baseline_mass, L.ballast_mass>> \o component_masses(L)

\* C15: for Conventional, Hybrid and BatteryElectric locomotives
\* derived_mass returns the sum when baseline, ballast and every component
\* mass are present, None when all of them are absent, and an error for
\* every partial combination.
C15_AllOrNone ==
    (call.op = "init" /\ locomotive.loco_type # "DummyLoco") =>
        LET cm == ConstituentMasses(locomotive)
            present == {k \in DOMAIN cm : cm[k] # None}
        IN  /\ present = DOMAIN cm =>
                  (call.derived.res = "Ok" /\ call.derived.v = SumSeq(cm))
            /\ present = {} =>
                  (call.derived.res = "Ok" /\ call.derived.v = None)
            /\ (present # {} /\ present # DOMAIN cm) => call.derived.res = "Err"

\* C15 witness: a hybrid locomotive with every constituent mass but the one
\* of its energy storage was refused
C15_Witness ==
    /\ call.op = "init" /\ call.res = "Err"
    /\ locomotive.loco_type = "HybridLoco"
    /\ locomotive.res_mass = None
    /\ \A f \in {"baseline_mass", "ballast_mass", "fc_mass", "gen_mass"} :
          locomotive[f] # None

\* every save_interval below the consist equals v
ConsistSavesAt(con, v) ==
    /\ con.save_interval = v
    /\ \A k \in DOMAIN con.loco_vec :
          /\ con.loco_vec[k].save_interval = v
          /\ \A c \in DOMAIN con.loco_vec[k].components :
                con.loco_vec[k].components[c] = v

\* C16: after constructing a simulator (new, default or From<builder>) and
\* after any set_save_interval call, the save_interval of the owner equals
\* that of its consist, of every locomotive and of every powertrain
\* component, and get_save_interval's equality assertion never fires.
C16_SaveIntervalPropagated ==
    /\ save_intervals.kind = "SetSpeedTrainSim" =>
          ConsistSavesAt(save_intervals.loco_con, save_intervals.save_interval)
    /\ save_intervals.kind = "ConsistSimulation" =>
          ConsistSavesAt(save_intervals.loco_con,
                         save_intervals.loco_con.save_interval)
    /\ call.op = "get_save_interval" => call.res = "Ok"

\* where walk() of the instance alone, from construction, ends
WalkedAlone(inst) ==
    LocomotiveSimulation_walk(NewLocomotive(inst.loco_unit.loco_type),
                              inst.power_trace)

\* what one move of the thread of an instance makes of that instance alone
OwnMoves(inst) ==
    {[inst EXCEPT !.pc = "walking"], [inst EXCEPT !.pc = "skipped"],
     walk_iter(inst.loco_unit, inst.power_trace)}

C18_PdctFixed == [][loco_con'.pdct = loco_con.pdct]_vars

\* C18, amended: the policy changes only through set_pdct_prop and
\* set_pdct_resgreedy, which set it to Proportional and to RESGreedy; every
\* other operation (set_assert_limits, step, walk) leaves it as it is.
C18_PdctChangedBySetterOnly ==
    [][loco_con'.pdct # loco_con.pdct =>
          /\ call' # call
          /\ \/ call'.op = "set_pdct_prop" /\ loco_con'.pdct = "Proportional"
             \/ call'.op = "set_pdct_resgreedy" /\ loco_con'.pdct = "RESGreedy"]_vars

\* C18 witness: after a completed walk with assert_limits off, the policy
\* chosen at construction was replaced by a setter
C18_Witness ==
    /\ call.op = "set_pdct_prop"
    /\ call.before = "FrontAndBack"
    /\ loco_con.pdct = "Proportional"
    /\ ~loco_con.assert_limits
    /\ last.op = "walk" /\ last.res = "Ok"

\* two successful capability calls in a row with the same train mass
SameMassCalls ==
    /\ call.op = "set_curr_pwr_max_out" /\ call.res = "Ok"
    /\ call'.op = "set_curr_pwr_max_out" /\ call'.res = "Ok"
    /\ call'.train_mass = call.train_mass

\* the speed of the second call is nearer to the threshold than the first
Nearer(threshold) ==
    Abs(call'.train_speed - threshold) < Abs(call.train_speed - threshold)

StalenessSites == {"stale_read", "check_and_reset"}

\* C20: in every LocomotiveSimulation step, for each powertrain variant,
\* each LocomotiveState field is written exactly once after the
\* check_and_reset at the top of the step, a step that fails has written no
\* field twice, and the first failure of a run is never a staleness error.
C20_WrittenOncePerStep ==
    [][/\ (last'.stepped /\ last'.res = "Ok") =>
             \A f \in Range(LocomotiveState) :
                loco_unit'.writes[f] = 1 /\ is_fresh(loco_unit', f)
       /\ last'.stepped =>
             \A f \in Range(LocomotiveState) : loco_unit'.writes[f] <= 1
       /\ (~failed /\ failed') => last'.site \notin StalenessSites]_vars

\* C20 witness: a hybrid locomotive has completed a walk of MaxLen samples,
\* every field written once in the last step
C20_Witness ==
    /\ loco_unit.loco_type = "HybridLoco"
    /\ last.op = "walk" /\ last.res = "Ok"
    /\ loco_unit.i = MaxLen - 1
    /\ \A f \in Range(LocomotiveState) : loco_unit.writes[f] = 1

\* C21: in a SetSpeedTrainSim no step() of a run in which no step has failed
\* before returns a stale-read error, with or without a temperature trace:
\* whatever solve_step reads with get_fresh was written earlier in that step
C21_ReadsAreFresh ==
    [][(sim = "train" /\ ~failed /\ last'.stepped /\ last' # last)
          => last'.site # "stale_read"]_vars

\* the magnitudes of the path speed limits that can be said to be in effect
\* at offset: that of the last speed point at or before it, and that of the
\* last speed point strictly before it
LimitsInEffect(path_tpc, offset) ==
    LET sp == path_tpc.speed_points
        at == {k \in DOMAIN sp : sp[k].offset <= offset}
        before == {k \in DOMAIN sp : sp[k].offset < offset}
        LastOf(S) == CHOOSE k \in S : \A j \in S : j <= k
    IN  (IF at = {} THEN {} ELSE {Abs(sp[LastOf(at)].speed_limit)}) \cup
        (IF before = {} THEN {} ELSE {Abs(sp[LastOf(before)].speed_limit)})

\* C22: after recalc returns Ok no braking point allows more speed than the
\* path speed limit in effect at its offset, and its speed_target is at most
\* its speed_limit.
C22_PointsWithinLimits ==
    (call.op = "recalc" /\ call.res = "Ok") =>
        \A k \in DOMAIN braking_points.points :
            LET p == braking_points.points[k]
                limits == LimitsInEffect(call.path_tpc, p.offset)
            IN  /\ limits # {} => \E l \in limits : p.speed_limit <= l
                /\ p.speed_target <= p.speed_limit

\* the errors of the power-limit assertions of Consist::solve_energy_consumption
LimitSites == {"exceeds_max_db_power", "exceeds_max_power"}

\* C23: no step() of a SetSpeedTrainSim fails a power-limit assertion of its
\* consist, and after a step that returned Ok the wheel power requested from
\* the consist lies between -max(pwr_dyn_brake_max, 0) and
\* min(pwr_out_max, max(0, previous pwr_whl_out + pwr_rate_out_max * dt)).
C23_RequestWithinLimits ==
    [][(sim = "train" /\ last'.stepped /\ last' # last) =>
          /\ last'.site \notin LimitSites
          /\ last'.res = "Ok" =>
                LET req == loco_con'.state.pwr_out_req
                    pwr_out_max == loco_con'.state.pwr_out_max
                IN  /\ req = state'.pwr_whl_out
                    /\ req >= 0 - Max2(loco_con.state.pwr_dyn_brake_max, 0)
                    /\ req <= Min2(pwr_out_max,
                                   Max2(0, state.pwr_whl_out + pwr_out_max))]_vars

\* C23 witness: with assert_limits on, a step has returned Ok although the
\* power needed to follow the speed trace exceeded what was requested
C23_Witness ==
    /\ sim = "train" /\ last.stepped /\ last.res = "Ok"
    /\ loco_con.assert_limits
    /\ state.i >= 1 /\ InRange(speed_trace.speed, state.i)
    /\ LET speed == At(speed_trace.speed, state.i)
           speed_prev == At(speed_trace.speed, state.i - 1)
       IN  state.pwr_whl_out < speed * speed - speed_prev * speed_prev

\* C24: on a Locomotive whose fields are consistent, a setter called with an
\* update-the-dependent-field side effect returns Ok and leaves the relation
\* force_max = mu * mass * g with the new value in place: set_mass(Some(m),
\* None) with mu set, set_force_max(f, Mass) with mu set, and
\* set_force_max(f, UpdateMu) with mass set, whatever was set before.
C24_SetterEstablishesRelation ==
    [][LET L == locomotive
           L1 == locomotive'
           c == call'
       IN  (check_force_max(L) /\ Locomotive_derived_mass(L).res = "Ok") =>
              /\ (c.op = "set_mass" /\ c.arg # None /\ c.side_effect = "None"
                     /\ L.mu # None) =>
                    /\ c.res = "Ok"
                    /\ L1.mass = c.arg
                    /\ L1.force_max = L.mu * c.arg * ACC_GRAV
              /\ (c.op = "set_force_max" /\ c.side_effect = "Mass"
                     /\ L.mu # None) =>
                    /\ c.res = "Ok"
                    /\ L1.force_max = c.arg
                    /\ L1.mass * L.mu * ACC_GRAV = c.arg
              /\ (c.op = "set_force_max" /\ c.side_effect = "UpdateMu"
                     /\ L.mass # None) =>
                    /\ c.res = "Ok"
                    /\ L1.mu * L.mass * ACC_GRAV = c.arg]_vars

\* C25: push on a SpeedTrace whose engine_on option variant differs from the
\* element's (Some(vec) against None, or None against Some) returns an error
\* and appends nothing, so that time, speed and engine_on (when it is Some)
\* never have different lengths.
C25_PushRejectsMismatch ==
    /\ (/\ call.op = "SpeedTrace.push"
        /\ call.pre.engine_on.some # call.elem.engine_on.some) =>
            (call.res = "Err" /\ speed_trace = call.pre)
    /\ Len(speed_trace.time) = Len(speed_trace.speed)
    /\ speed_trace.engine_on.some =>
            Len(speed_trace.engine_on.vec) = Len(speed_trace.time)

\* C26: after any sequence of PowerTrace.push and successful PowerTrace.trim
\* calls, time, pwr and engine_on have one length, and train_speed is empty
\* or has that length too, with entry j the speed of the sample of time[j]
\* (its time + 1 in the traces of the model), so that train_speed[i] is in
\* range and aligned at every step index i.
C26_TrainSpeedAligned ==
    (sim = "consist" /\ pc = "idle") =>
        /\ Len(power_trace.pwr) = Len(power_trace.time)
        /\ Len(power_trace.engine_on) = Len(power_trace.time)
        /\ \/ power_trace.train_speed = << >>
           \/ /\ Len(power_trace.train_speed) = Len(power_trace.time)
              /\ \A j \in DOMAIN power_trace.time :
                    power_trace.train_speed[j] = power_trace.time[j] + 1

\* C27: after any sequence of Consist::new, set_loco_vec and drain_loco_vec,
\* n_res_equipped() returns the number of locomotives of the current
\* loco_vec that carry a reversible energy store.
C27_CountsCurrentLocoVec ==
    call.op = "n_res_equipped" => call.ret = CountRes(loco_con.loco_vec)

\* C28: no index of BrakingPoints goes out of range: recalc never decrements
\* the speed-point index idx below 0, on any path with at least one speed
\* point, and calc_speeds never evaluates idx_curr - 1 with idx_curr = 0, at
\* any query offset between the beginning and the end of the path.
C28_IndicesInRange ==
    /\ (call.op = "recalc" /\ call.path_tpc.speed_points # << >>) =>
            call.site # "speed_points_index"
    /\ (/\ call.op = "calc_speeds"
        /\ braking_points.points # << >>
        /\ call.offset <= At(braking_points.points, 0).offset) =>
            call.site # "points_index"

\* C29: recalc terminates by returning Ok or an error, for every path with
\* finitely many speed points and every positive dt: a call that has entered
\* its loops returns, and an iteration of the inner loop that does not break
\* leaves the last point at a strictly smaller offset.
C29_RecalcReturns ==
    /\ InRecalc ~> (pc = "idle" /\ call.op = "recalc" /\ call.res \in {"Ok", "Err"})
    /\ [][(pc = "recalc_inner" /\ pc' = "recalc_inner") =>
             Last(braking_points'.points).offset
                 < Last(braking_points.points).offset]_vars

\* C30: the queries across the powertrain variants return a value and never
\* abort: Consist.get_energy_fuel and Locomotive.get_pwr_rated, for
\* Conventional, Hybrid, BatteryElectric and Dummy locomotives alike.
C30_QueriesReturn ==
    call.op \in {"get_energy_fuel", "get_pwr_rated"} => call.res = "Ok"

====
